---- MODULE Spec2Model ----
(***************************************************************************)
(* librbd shim of lsd_ceph (src/script/librbd.cc).                         *)
(*                                                                         *)
(* Two layers of the file are modelled side by side:                       *)
(*   - the exported C entry points at the end of the file (rbd_open,       *)
(*     rbd_close, rbd_aio_readv, ...), most of which only print a trace    *)
(*     line and return 0;                                                  *)
(*   - the C++ wrappers (librbd::RBD, librbd::Image,                       *)
(*     librbd::RBD::AioCompletion) and the completion contexts             *)
(*     (C_AioCompletion), which hand every request to collaborators that   *)
(*     are not part of the file: ImageCtx::state, ImageCtx::io_work_queue  *)
(*     and librbd::io::AioCompletion.  Those collaborators are modelled    *)
(*     from the design document (spec.md 4.1-4.4): a transport client      *)
(*     with one connection, a completion engine and a correct backend.     *)
(*                                                                         *)
(* The build modelled is the one without WITH_LTTNG: tracepoint(...)       *)
(* expands to nothing (librbd.cc:245-253), so a wrapper reads the image    *)
(* context only where it uses ictx itself.                                 *)
(***************************************************************************)
EXTENDS Integers, Sequences, FiniteSets, TLC

(* ------------------------------------------------------------------ *)
(* Bounds of the model                                                 *)
(* ------------------------------------------------------------------ *)
\* completion objects the caller may construct
MaxComps == 2
\* bytes of the backend image "disk0"; buffers hold up to ImgSize bytes
ImgSize == 2
\* ImageCtx objects the process may allocate (new ImageCtx)
MaxOpens == 2
\* calls the caller makes in one run, from the state after construction
MaxCalls == 3
\* calls the caller makes in one run, from a state with both sessions open
MaxRunCalls == 3
\* calls the caller makes in one run on two completions it may also wait on
MaxEngCalls == 2

(* ------------------------------------------------------------------ *)
(* Values                                                              *)
(* ------------------------------------------------------------------ *)
NULL == 0
EINVAL == 22
INT_MAX == 2147483647
\* error kinds of the design (spec.md 7), as negative result codes
ChannelClosed == -108
BackendUnavailable == -107
OutOfRange == -34
OpenError == -2
CloseError == -5

Byte == {0, 1}
Comps == 1..MaxComps
Ictxs == 1..MaxOpens
Offsets == 0..(ImgSize - 1)
Lens == 0..ImgSize
\* all byte strings of up to ImgSize bytes (comparison buffers)
AllBufs == UNION {[1..n -> Byte] : n \in 0..ImgSize}
\* source buffers of writes: one byte value repeated
Bufs == {[i \in 1..n |-> b] : n \in 0..ImgSize, b \in Byte}
\* destination buffers of reads, as the caller hands them in: zero-filled
ReadBufs == {[i \in 1..n |-> 0] : n \in 0..ImgSize}
Range(off, len) == {p \in Offsets : off <= p /\ p < off + len}

VARIABLES
    ictxState,   \* ImageCtx -> "none" | "open" | "closing" | "closed"
    imageCtx,    \* librbd::Image::ctx of the caller's Image object
    cImage,      \* the caller's rbd_image_t slot passed to rbd_open
    cClosed,     \* handles on which rbd_close has returned 0
    comp,        \* completion objects (RBD::AioCompletion / io::AioCompletion)
    conn,        \* transport connection: "open" | "closed"
    sent,        \* transport request counter (requests that reached the channel)
    inflight,    \* requests sent and not yet answered
    responses,   \* responses arrived and not yet handed to the completion engine
    content,     \* backend content of the image
    known,       \* <<pos, byte>>: bytes of completed, unraced writes
    flushed,     \* <<pos, byte>>: known bytes covered by a later completed flush
    pc,          \* the caller thread: idle, or blocked inside a synchronous close
    last,        \* the most recent call and what it returned
    budget,      \* calls the caller may still make in this run
    crashed,     \* a call dereferenced a null image context
    raw          \* the buffer::raw made by create_write_raw from the caller's memory

vars == <<ictxState, imageCtx, cImage, cClosed, comp, conn, sent, inflight,
          responses, content, known, flushed, pc, last, budget, crashed, raw>>

(* ------------------------------------------------------------------ *)
(* Buffers                                                             *)
(* ------------------------------------------------------------------ *)
\* bufferlist::is_zero
is_zero(bl) == \A i \in 1..Len(bl) : bl[i] = 0

\* first len bytes of a buffer (the payload of a write of len bytes)
Prefix(bl, len) == [i \in 1..len |-> bl[i]]

\* the pattern bl repeated to fill len bytes (len a multiple of Len(bl))
Repeat(bl, len) == [i \in 1..len |-> bl[((i - 1) % Len(bl)) + 1]]

Zeroes(len) == [i \in 1..len |-> 0]

\* bytes [off, off+len) of the image
ReadBytes(img, off, len) == [i \in 1..len |-> img[off + i - 1]]

\* the image with data stored at off
WriteBytes(img, off, data) ==
    [p \in Offsets |-> IF off <= p /\ p < off + Len(data) THEN data[p - off + 1] ELSE img[p]]

\* positions of [off, off+len) at which cmp differs from the image
Mismatches(img, off, cmp) == {p \in Range(off, Len(cmp)) : cmp[p - off + 1] # img[p]}

Min(S) == CHOOSE x \in S : \A y \in S : x <= y

(* ------------------------------------------------------------------ *)
(* Completion engine (librbd::io::AioCompletion)                       *)
(* ------------------------------------------------------------------ *)
\* state: "Free" (not constructed) | "Pending" | "Complete" | "Failed";
\* rval: result code / return value; hasCb, cb: a callback is registered, and how
\* often it ran; dup: a resolution attempt on a terminal completion was detected;
\* op, h, req, len: the operation the completion was last passed to, its image, the
\* request sent for it and its length; buf: destination buffer of a read; mm: the caller's
\* mismatch_off slot (<<>> while unwritten); exp, xmm: what the read / the compare
\* must deliver according to the image content (used by the properties only);
\* wait: a thread in wait_for_complete: "none" | "asleep" | "woken" (returned after
\* it slept) | "returned" (returned at once), and wret what the wait returned; rel: "no" | "freed" | "violation" (a release before the terminal
\* state was detected); wdel: the RBD::AioCompletion wrapper object was deleted.
FreeComp ==
    [state |-> "Free", rval |-> 0, hasCb |-> FALSE, cb |-> 0, dup |-> 0,
     op |-> "none", h |-> NULL, req |-> 0, len |-> 0, buf |-> <<>>,
     exp |-> {}, mm |-> <<>>, xmm |-> <<>>,
     wait |-> "none", wret |-> 0, rel |-> "no", wdel |-> FALSE,
     blk |-> 0, held |-> <<>>]

\* no raw buffer exists
NoRaw == [mode |-> "none", c |-> 0, orig |-> <<>>, data |-> <<>>, mem |-> <<>>,
          refs |-> 0, out |-> <<>>, dz |-> FALSE]

\* a resolution that arrives while the completion is blocked is held back
Hold(cr, r) ==
    IF cr.held = <<>> THEN [cr EXCEPT !.held = <<r>>] ELSE [cr EXCEPT !.dup = 1]

\* the engine's notification of a thread blocked in wait_for_complete: the waiter
\* returns with the recorded result
Wake(cr) ==
    IF cr.wait = "asleep" THEN [cr EXCEPT !.wait = "woken", !.wret = cr.rval] ELSE cr

\* a faulty engine that completes, and calls back, again
AioComplete_again(cr) ==
    [cr EXCEPT !.state = "Complete", !.cb = IF cr.hasCb THEN @ + 1 ELSE @]

\* AioCompletion::complete(): Pending -> Complete, one callback, then the waiter is
\* notified; a completion that is already terminal keeps its result and the attempt
\* is counted as a violation.
AioComplete(cr) ==
    IF cr.state = "Pending"
    THEN IF cr.blk > 0 THEN Hold(cr, 0)
         ELSE Wake([cr EXCEPT !.state = "Complete", !.cb = IF cr.hasCb THEN @ + 1 ELSE @])
    ELSE [cr EXCEPT !.dup = 1]

\* a faulty engine that notifies the waiter of a failure without running the callback
AioFail_no_callback(cr, r) ==
    IF cr.state = "Pending"
    THEN Wake([cr EXCEPT !.state = "Failed", !.rval = r])
    ELSE [cr EXCEPT !.dup = 1]

\* AioCompletion::fail(r): Pending -> Failed with result code r, one callback, then
\* the waiter is notified
AioFail(cr, r) ==
    IF cr.state = "Pending"
    THEN IF cr.blk > 0 THEN Hold(cr, r)
         ELSE Wake([cr EXCEPT !.state = "Failed", !.rval = r,
                              !.cb = IF cr.hasCb THEN @ + 1 ELSE @])
    ELSE [cr EXCEPT !.dup = 1]

\* AioCompletion::block(): the completion is not delivered while it is blocked
AioBlock(cr) == [cr EXCEPT !.blk = @ + 1]

\* AioCompletion::unblock(): the last unblock delivers a resolution that was held back
AioUnblock(cr) ==
    LET u == [cr EXCEPT !.blk = @ - 1, !.held = IF cr.blk = 1 THEN <<>> ELSE @] IN
    IF cr.blk = 1 /\ cr.held # <<>>
    THEN IF cr.held[1] < 0 THEN AioFail(u, cr.held[1]) ELSE AioComplete(u)
    ELSE u

\* AioCompletion::wait_for_complete(): a terminal completion is returned from at
\* once, otherwise the thread sleeps until the engine notifies it
AioWait(cr) ==
    IF cr.state \in {"Complete", "Failed"}
    THEN [cr EXCEPT !.wait = "returned", !.wret = cr.rval]
    ELSE [cr EXCEPT !.wait = "asleep"]

\* AioCompletion::release(): frees a terminal completion; a release before the
\* terminal state is a contract violation that is detected and frees nothing
AioRelease(cr) ==
    IF cr.state \in {"Complete", "Failed"}
    THEN [cr EXCEPT !.rel = "freed"]
    ELSE [cr EXCEPT !.rel = "violation"]

\* AioCompletion::set_rval + complete / fail, as the engine's resolve(id, result)
Resolve(cr, r) ==
    IF r < 0 THEN AioFail(cr, r)
    ELSE AioComplete(IF cr.state = "Pending" THEN [cr EXCEPT !.rval = r] ELSE cr)

\* a faulty context that completes whatever result it is given
C_AioCompletion_finish_complete(cr, r) == AioComplete(cr)

\* C_AioCompletion::finish(int r)
C_AioCompletion_finish(cr, r) ==
    IF r < 0 THEN AioFail(cr, r) ELSE AioComplete(cr)

Terminal(cr) == cr.state \in {"Complete", "Failed"}

(* ------------------------------------------------------------------ *)
(* Initial state                                                       *)
(* ------------------------------------------------------------------ *)
Idle == [op |-> "idle", h |-> NULL, new |-> NULL]

NoCall ==
    [op |-> "none", h |-> NULL, c |-> 0, off |-> 0, len |-> 0, blen |-> 0,
     ret |-> 0, reqs |-> {}, nsent |-> 0, buf |-> <<>>, exp |-> {},
     mm |-> <<>>, xmm |-> <<>>]

\* the record of a call: reqs are the requests the call handed to the image's
\* request queue, nsent how many requests it put on the channel
Call(op, h, c, off, len, blen, ret, reqs, nsent) ==
    [NoCall EXCEPT !.op = op, !.h = h, !.c = c, !.off = off, !.len = len,
                   !.blen = blen, !.ret = ret, !.reqs = reqs, !.nsent = nsent]

Init ==
    /\ ictxState = [h \in Ictxs |-> [st |-> "none", closer |-> 0, res |-> 0, discard_zero |-> FALSE, gen |-> 0, disable_zero_copy |-> FALSE, closes |-> 0]]
    /\ imageCtx = NULL
    /\ cImage = NULL
    /\ cClosed = {}
    /\ comp = [c \in Comps |-> FreeComp]
    /\ conn = "open"
    /\ sent = 0
    /\ inflight = {}
    /\ responses = {}
    /\ content = [p \in Offsets |-> 0]
    /\ known = {}
    /\ flushed = {}
    /\ pc = Idle
    /\ last = NoCall
    /\ budget = MaxCalls
    /\ crashed = FALSE
    /\ raw = NoRaw

\* a state the caller's setup leads to: the Image object holds an open session or
\* none, the first completion is constructed and either fresh or completed by an
\* earlier rbd_aio_readv of no bytes, and the image holds any content
InitIo ==
    /\ \E open \in BOOLEAN, dz \in BOOLEAN :
          /\ ictxState = [h \in Ictxs |->
                            IF h = 1 /\ open
                            THEN [st |-> "open", closer |-> 0, res |-> 0, discard_zero |-> dz, gen |-> 1, disable_zero_copy |-> FALSE, closes |-> 0]
                            ELSE [st |-> "none", closer |-> 0, res |-> 0, discard_zero |-> FALSE, gen |-> 0, disable_zero_copy |-> FALSE, closes |-> 0]]
          /\ imageCtx = IF open THEN 1 ELSE NULL
          /\ sent = IF open THEN 1 ELSE 0
          /\ (open \/ ~dz)
    /\ cImage = NULL
    /\ cClosed = {}
    /\ \E cb \in BOOLEAN, done \in BOOLEAN :
          comp = [c \in Comps |->
                    IF c # 1 THEN FreeComp
                    ELSE IF done
                    THEN [FreeComp EXCEPT !.state = "Complete", !.hasCb = cb,
                                          !.cb = IF cb THEN 1 ELSE 0, !.op = "read"]
                    ELSE [FreeComp EXCEPT !.state = "Pending", !.hasCb = cb]]
    /\ conn = "open"
    /\ inflight = {}
    /\ responses = {}
    /\ content \in [Offsets -> Byte]
    /\ known = {}
    /\ flushed = {}
    /\ pc = Idle
    /\ last = NoCall
    /\ budget = MaxCalls
    /\ crashed = FALSE
    /\ raw = NoRaw

\* the state after RBD::open and rbd_open of "disk0" have both succeeded and two
\* completions have been constructed
InitRun ==
    /\ ictxState = [h \in Ictxs |->
                      IF h <= 2 THEN [st |-> "open", closer |-> 0, res |-> 0, discard_zero |-> FALSE, gen |-> 1, disable_zero_copy |-> FALSE, closes |-> 0]
                      ELSE [st |-> "none", closer |-> 0, res |-> 0, discard_zero |-> FALSE, gen |-> 0, disable_zero_copy |-> FALSE, closes |-> 0]]
    /\ imageCtx = 1
    /\ cImage = 2
    /\ cClosed = {}
    /\ comp = [c \in Comps |->
                 IF c <= 2 THEN [FreeComp EXCEPT !.state = "Pending"] ELSE FreeComp]
    /\ conn = "open"
    /\ sent = 2
    /\ inflight = {}
    /\ responses = {}
    /\ content = [p \in Offsets |-> 0]
    /\ known = {}
    /\ flushed = {}
    /\ pc = Idle
    /\ last = NoCall
    /\ budget = MaxRunCalls
    /\ crashed = FALSE
    /\ raw = NoRaw

\* the state after RBD::open and rbd_open of "disk0" have both succeeded and two
\* completions have been constructed, with or without a callback
InitEng ==
    /\ ictxState = [h \in Ictxs |->
                      IF h <= 2 THEN [st |-> "open", closer |-> 0, res |-> 0, discard_zero |-> FALSE, gen |-> 1, disable_zero_copy |-> FALSE, closes |-> 0]
                      ELSE [st |-> "none", closer |-> 0, res |-> 0, discard_zero |-> FALSE, gen |-> 0, disable_zero_copy |-> FALSE, closes |-> 0]]
    /\ imageCtx = 1
    /\ cImage = 2
    /\ cClosed = {}
    /\ \E cb \in BOOLEAN :
          comp = [c \in Comps |->
                    IF c <= 2 THEN [FreeComp EXCEPT !.state = "Pending", !.hasCb = cb]
                    ELSE FreeComp]
    /\ conn = "open"
    /\ sent = 2
    /\ inflight = {}
    /\ responses = {}
    /\ content = [p \in Offsets |-> 0]
    /\ known = {}
    /\ flushed = {}
    /\ pc = Idle
    /\ last = NoCall
    /\ budget = MaxEngCalls
    /\ crashed = FALSE
    /\ raw = NoRaw

\* a session is open, with or without disable_zero_copy, a completion is
\* constructed, and no raw buffer exists yet
InitRaw ==
    /\ \E dzc \in BOOLEAN :
          ictxState = [h \in Ictxs |->
                         IF h = 1
                         THEN [st |-> "open", closer |-> 0, res |-> 0, discard_zero |-> FALSE,
                               gen |-> 1, disable_zero_copy |-> dzc, closes |-> 0]
                         ELSE [st |-> "none", closer |-> 0, res |-> 0, discard_zero |-> FALSE,
                               gen |-> 0, disable_zero_copy |-> FALSE, closes |-> 0]]
    /\ imageCtx = 1
    /\ cImage = NULL
    /\ cClosed = {}
    /\ \E cb \in BOOLEAN :
          comp = [c \in Comps |->
                    IF c = 1 THEN [FreeComp EXCEPT !.state = "Pending", !.hasCb = cb]
                    ELSE FreeComp]
    /\ conn = "open"
    /\ sent = 1
    /\ inflight = {}
    /\ responses = {}
    /\ content = [p \in Offsets |-> 0]
    /\ known = {}
    /\ flushed = {}
    /\ pc = Idle
    /\ last = NoCall
    /\ budget = MaxCalls
    /\ crashed = FALSE
    /\ raw = NoRaw

\* the Image object holds no session and the caller has constructed its completions,
\* with or without a callback
InitOpen ==
    /\ ictxState = [h \in Ictxs |-> [st |-> "none", closer |-> 0, res |-> 0, discard_zero |-> FALSE, gen |-> 0, disable_zero_copy |-> FALSE, closes |-> 0]]
    /\ imageCtx = NULL
    /\ cImage = NULL
    /\ cClosed = {}
    /\ \E cb \in BOOLEAN :
          comp = [c \in Comps |-> [FreeComp EXCEPT !.state = "Pending", !.hasCb = cb]]
    /\ conn = "open"
    /\ sent = 0
    /\ inflight = {}
    /\ responses = {}
    /\ content = [p \in Offsets |-> 0]
    /\ known = {}
    /\ flushed = {}
    /\ pc = Idle
    /\ last = NoCall
    /\ budget = MaxCalls
    /\ crashed = FALSE
    /\ raw = NoRaw

CanCall == pc.op = "idle" /\ ~crashed /\ budget > 0

Constructed == {c \in Comps : comp[c].state # "Free"}
\* completions that no operation has been issued on yet
Fresh == {c \in Comps : comp[c].state = "Pending" /\ comp[c].op = "none"}
\* completions are interchangeable: an asynchronous call is tried with the first
\* fresh one
FirstFresh(c) == c \in Fresh /\ \A d \in Fresh : c <= d

\* requests of image h that are still outstanding
Outstanding(h) == {r \in inflight \cup responses : r.h = h}

(* ------------------------------------------------------------------ *)
(* What the caller can know of the image content                      *)
(* ------------------------------------------------------------------ *)
Mutators == {"write", "writesame", "write_zeroes", "discard", "cas"}

Forget(S, R) == {e \in S : e[1] \notin R}

\* an operation that changes positions R is issued: requests in flight that
\* overlap R race with it
TouchReqs(S, R) ==
    {IF Range(r.off, r.len) \cap R # {}
     THEN [r EXCEPT !.solo = FALSE, !.exp = {e \in @ : (r.off + e[1] - 1) \notin R}]
     ELSE r : r \in S}

\* no mutator in flight overlaps R
Unraced(R) ==
    \A r \in inflight \cup responses :
        r.kind \in Mutators => Range(r.off, r.len) \cap R = {}

\* what a read of [off, off+len) issued now must return: <<index, byte>>
Expect(off, len) ==
    {<<f[1] - off + 1, f[2]>> : f \in {g \in flushed : g[1] \in Range(off, len)}}

\* the bytes a completed write of data at off makes known
Written(off, data) == {<<p, data[p - off + 1]>> : p \in Range(off, Len(data))}

(* ------------------------------------------------------------------ *)
(* Backend and transport (spec.md 4.1, 6)                              *)
(* ------------------------------------------------------------------ *)
NoReq ==
    [id |-> 0, kind |-> "none", h |-> NULL, c |-> 0, off |-> 0, len |-> 0,
     data |-> <<>>, cmp |-> <<>>, gcmp |-> <<>>, solo |-> FALSE, exp |-> {},
     status |-> 0, out |-> <<>>, mm |-> <<>>, xmm |-> <<>>]

Result(status, img, out, mm) == [status |-> status, img |-> img, out |-> out, mm |-> mm]

\* a correct backend executing one request on the image
Exec(kind, img, off, len, data, cmp) ==
    IF kind = "flush" THEN Result(0, img, <<>>, <<>>)
    ELSE IF off + len > ImgSize THEN Result(OutOfRange, img, <<>>, <<>>)
    ELSE IF kind = "read" THEN Result(len, img, ReadBytes(img, off, len), <<>>)
    ELSE IF kind = "write" THEN Result(len, WriteBytes(img, off, data), <<>>, <<>>)
    ELSE IF kind = "writesame" THEN Result(len, WriteBytes(img, off, Repeat(data, len)), <<>>, <<>>)
    ELSE IF kind = "write_zeroes" THEN Result(len, WriteBytes(img, off, Zeroes(len)), <<>>, <<>>)
    ELSE IF Mismatches(img, off, cmp) # {}
         THEN Result(0, img, <<>>, <<Min(Mismatches(img, off, cmp))>>)
         ELSE Result(len, WriteBytes(img, off, data), <<>>, <<>>)

\* the mismatch offset the caller's comparison buffer calls for
ExpectMismatch(img, off, len, gcmp) ==
    IF off + len <= ImgSize /\ Mismatches(img, off, gcmp) # {}
    THEN <<Min(Mismatches(img, off, gcmp))>> ELSE <<>>

\* the backend answers one request
Backend_process(r) ==
    /\ ~crashed
    /\ conn = "open"
    /\ r \in inflight
    /\ LET x == Exec(r.kind, content, r.off, r.len, r.data, r.cmp) IN
       /\ content' = x.img
       /\ inflight' = inflight \ {r}
       /\ responses' = responses \cup
             {[r EXCEPT !.status = x.status, !.out = x.out, !.mm = x.mm,
                        !.xmm = IF r.kind = "cas"
                                THEN ExpectMismatch(content, r.off, r.len, r.gcmp)
                                ELSE <<>>]}
    /\ UNCHANGED <<ictxState, imageCtx, cImage, cClosed, comp, conn, sent, known,
                   flushed, pc, last, budget, crashed, raw>>

\* a faulty receive loop that hands a response to the oldest operation still pending,
\* whatever request the response answers
ReceiveLoop_in_order(r) ==
    /\ ~crashed
    /\ r \in responses
    /\ responses' = responses \ {r}
    /\ LET waiting == {c \in Comps : comp[c].state = "Pending" /\ comp[c].req # 0}
           t == IF waiting = {} THEN r.c
                ELSE CHOOSE c \in waiting : \A d \in waiting : comp[c].req <= comp[d].req
           mine == comp[t].state = "Pending"
           ok == mine /\ r.status >= 0 IN
       /\ comp' = [comp EXCEPT ![t] =
                     IF mine
                     THEN [Resolve(@, r.status) EXCEPT
                              !.buf = IF ok /\ r.kind = "read" THEN r.out ELSE @,
                              !.exp = IF r.kind = "read" THEN r.exp ELSE @,
                              !.mm = IF ok THEN r.mm ELSE @,
                              !.xmm = r.xmm]
                     ELSE Resolve(@, r.status)]
       /\ known' = IF ok /\ r.kind = "write" /\ r.solo
                   THEN known \cup Written(r.off, r.data) ELSE known
       /\ flushed' = IF ok /\ r.kind = "flush"
                     THEN flushed \cup (r.exp \cap known) ELSE flushed
    /\ UNCHANGED <<ictxState, imageCtx, cImage, cClosed, conn, sent, inflight,
                   content, pc, last, budget, crashed, raw>>

\* a faulty receive loop that takes the caller's lock: it runs only while no caller
\* is blocked in a synchronous call
ReceiveLoop_after_caller(r) ==
    /\ ~crashed
    /\ pc.op = "idle"
    /\ r \in responses
    /\ responses' = responses \ {r}
    /\ LET mine == comp[r.c].state = "Pending" /\ comp[r.c].req = r.id
           ok == mine /\ r.status >= 0 IN
       /\ comp' = [comp EXCEPT ![r.c] =
                     IF mine
                     THEN [Resolve(@, r.status) EXCEPT
                              !.buf = IF ok /\ r.kind = "read" THEN r.out ELSE @,
                              !.exp = IF r.kind = "read" THEN r.exp ELSE @,
                              !.mm = IF ok THEN r.mm ELSE @,
                              !.xmm = r.xmm]
                     ELSE Resolve(@, r.status)]
       /\ known' = IF ok /\ r.kind = "write" /\ r.solo
                   THEN known \cup Written(r.off, r.data) ELSE known
       /\ flushed' = IF ok /\ r.kind = "flush"
                     THEN flushed \cup (r.exp \cap known) ELSE flushed
    /\ UNCHANGED <<ictxState, imageCtx, cImage, cClosed, conn, sent, inflight,
                   content, pc, last, budget, crashed, raw>>

\* the receive loop hands one response to the completion engine
ReceiveLoop(r) ==
    /\ ~crashed
    /\ r \in responses
    /\ responses' = responses \ {r}
    /\ LET mine == comp[r.c].state = "Pending" /\ comp[r.c].req = r.id
           ok == mine /\ r.status >= 0 IN
       /\ comp' = [comp EXCEPT ![r.c] =
                     IF mine
                     THEN [Resolve(@, r.status) EXCEPT
                              !.buf = IF ok /\ r.kind = "read" THEN r.out ELSE @,
                              !.exp = IF r.kind = "read" THEN r.exp ELSE @,
                              !.mm = IF ok THEN r.mm ELSE @,
                              !.xmm = r.xmm]
                     ELSE Resolve(@, r.status)]
       /\ known' = IF ok /\ r.kind = "write" /\ r.solo
                   THEN known \cup Written(r.off, r.data) ELSE known
       /\ flushed' = IF ok /\ r.kind = "flush"
                     THEN flushed \cup (r.exp \cap known) ELSE flushed
    /\ UNCHANGED <<ictxState, imageCtx, cImage, cClosed, conn, sent, inflight,
                   content, pc, last, budget, crashed, raw>>

\* the connection drops: every operation pending on it fails with BackendUnavailable
ConnectionDrop ==
    /\ ~crashed
    /\ conn = "open"
    /\ conn' = "closed"
    /\ comp' = [c \in Comps |->
                  IF \E r \in inflight \cup responses : r.c = c
                  THEN AioFail(comp[c], BackendUnavailable) ELSE comp[c]]
    /\ inflight' = {}
    /\ responses' = {}
    /\ UNCHANGED <<ictxState, imageCtx, cImage, cClosed, sent, content, known,
                   flushed, pc, last, budget, crashed, raw>>

\* a faulty send that does not advance the request counter
WQ_aio_same_id(kind, c, h, off, len, data, cmp, gcmp) ==
    LET R == IF kind \in Mutators THEN Range(off, len) ELSE {}
        req == [NoReq EXCEPT !.id = sent + 1, !.kind = kind, !.h = h, !.c = c,
                             !.off = off, !.len = len, !.data = data, !.cmp = cmp,
                             !.gcmp = gcmp,
                             !.solo = kind = "write" /\ Unraced(R),
                             !.exp = IF kind = "read" THEN Expect(off, len)
                                     ELSE IF kind = "flush" THEN known ELSE {}]
        bound == [comp[c] EXCEPT !.op = kind, !.h = h, !.req = sent + 1, !.len = len]
    IN IF conn = "closed"
       THEN /\ comp' = [comp EXCEPT ![c] = AioFail([bound EXCEPT !.req = 0], ChannelClosed)]
            /\ UNCHANGED <<sent, inflight, responses, known, flushed>>
       ELSE /\ comp' = [comp EXCEPT ![c] = bound]
            /\ sent' = sent
            /\ inflight' = TouchReqs(inflight, R) \cup {req}
            /\ responses' = TouchReqs(responses, R)
            /\ known' = Forget(known, R)
            /\ flushed' = Forget(flushed, R)

\* ImageRequestWQ::aio_<kind>(c, ...): send, or fail the completion with ChannelClosed.
\* gcmp is the comparison buffer the caller passed (kept for the properties).
WQ_aio(kind, c, h, off, len, data, cmp, gcmp) ==
    LET R == IF kind \in Mutators THEN Range(off, len) ELSE {}
        req == [NoReq EXCEPT !.id = sent + 1, !.kind = kind, !.h = h, !.c = c,
                             !.off = off, !.len = len, !.data = data, !.cmp = cmp,
                             !.gcmp = gcmp,
                             !.solo = kind = "write" /\ Unraced(R),
                             !.exp = IF kind = "read" THEN Expect(off, len)
                                     ELSE IF kind = "flush" THEN known ELSE {}]
        bound == [comp[c] EXCEPT !.op = kind, !.h = h, !.req = sent + 1, !.len = len]
    IN IF conn = "closed"
       THEN /\ comp' = [comp EXCEPT ![c] = AioFail([bound EXCEPT !.req = 0], ChannelClosed)]
            /\ UNCHANGED <<sent, inflight, responses, known, flushed>>
       ELSE /\ comp' = [comp EXCEPT ![c] = bound]
            /\ sent' = sent + 1
            /\ inflight' = TouchReqs(inflight, R) \cup {req}
            /\ responses' = TouchReqs(responses, R)
            /\ known' = Forget(known, R)
            /\ flushed' = Forget(flushed, R)

\* ImageRequestWQ::<kind>(...): the synchronous request, issued and waited for
WQ_sync(kind, off, len, data, cmp) ==
    IF conn = "closed" THEN Result(ChannelClosed, content, <<>>, <<>>)
    ELSE Exec(kind, content, off, len, data, cmp)

\* state change of a synchronous request with result x
WQ_sync_effect(kind, off, len, data, x) ==
    LET R == IF kind \in Mutators THEN Range(off, len) ELSE {} IN
    IF conn = "closed"
    THEN UNCHANGED <<sent, inflight, responses, content, known, flushed>>
    ELSE /\ sent' = sent + 1
         /\ content' = x.img
         /\ inflight' = TouchReqs(inflight, R)
         /\ responses' = TouchReqs(responses, R)
         /\ known' = IF kind = "write" /\ x.status >= 0 /\ Unraced(R)
                     THEN Forget(known, R) \cup Written(off, data)
                     ELSE Forget(known, R)
         /\ flushed' = IF kind = "flush" /\ x.status >= 0
                       THEN flushed \cup known ELSE Forget(flushed, R)

(* ------------------------------------------------------------------ *)
(* ImageCtx::state (ImageState): open and close of a session           *)
(* ------------------------------------------------------------------ *)
\* the addresses `new ImageCtx` can return: the next address never used, or the
\* address of an ImageCtx that was destroyed when its close or failed open finished
NewIctx ==
    LET unused == {h \in Ictxs : ictxState[h].st = "none"} IN
    (IF unused = {} THEN {} ELSE {Min(unused)}) \cup
    {h \in Ictxs : ictxState[h].st = "closed"}
CanAlloc == NewIctx # {}

\* results ImageState::open(0) can return
OpenResults == IF conn = "open" THEN {0, OpenError} ELSE {ChannelClosed}
\* results ImageState::close() can return once the session is drained
CloseResults == IF conn = "open" THEN {0, CloseError} ELSE {0}

\* gen counts the successful opens that returned this address as their handle
\* (closer: the completion of the Context handed to ImageState::close or open;
\* closes: the calls of ImageState::close made on this address)
Opened(h, r, dz) ==
    [ictxState EXCEPT ![h] = [st |-> IF r >= 0 THEN "open" ELSE "closed",
                              closer |-> 0, res |-> r, discard_zero |-> dz,
                              gen |-> IF r >= 0 THEN ictxState[h].gen + 1
                                      ELSE ictxState[h].gen,
                              disable_zero_copy |-> FALSE,
                              closes |-> ictxState[h].closes]]

\* an asynchronous close (Image::aio_close) finishes once the session is drained:
\* the C_AioCompletion context of the close runs finish(r)
ImageState_close_finish(h, r) ==
    /\ ~crashed
    /\ ictxState[h].st = "closing"
    /\ ictxState[h].closer # 0
    /\ comp[ictxState[h].closer].op = "close"
    /\ Outstanding(h) = {}
    /\ r \in CloseResults
    /\ ictxState' = [ictxState EXCEPT ![h].st = "closed", ![h].res = r]
    /\ comp' = [comp EXCEPT ![ictxState[h].closer] = C_AioCompletion_finish(@, r)]
    /\ UNCHANGED <<imageCtx, cImage, cClosed, conn, sent, inflight, responses,
                   content, known, flushed, pc, last, budget, crashed, raw>>

(* ------------------------------------------------------------------ *)
(* Exported C entry points (librbd.cc:3236-3429)                       *)
(* ------------------------------------------------------------------ *)
\* a faulty rbd_open that writes *image whatever the open returned
rbd_open_always_writes(r) ==
    /\ CanCall
    /\ CanAlloc
    /\ r \in OpenResults
    /\ \E ictx \in NewIctx :
       /\ ictxState' = Opened(ictx, r, FALSE)
       /\ cImage' = ictx
       /\ sent' = IF conn = "open" THEN sent + 1 ELSE sent
       /\ last' = Call("rbd_open", ictx, 0, 0, 0, 0, r, {},
                       IF conn = "open" THEN 1 ELSE 0)
    /\ budget' = budget - 1
    /\ UNCHANGED <<imageCtx, cClosed, comp, conn, inflight, responses, content,
                   known, flushed, pc, crashed, raw>>

\* rbd_open: opens a session and writes *image only when the open succeeded
rbd_open(r) ==
    /\ CanCall
    /\ CanAlloc
    /\ r \in OpenResults
    /\ \E ictx \in NewIctx :
       /\ ictxState' = Opened(ictx, r, FALSE)
       /\ cImage' = IF r >= 0 THEN ictx ELSE cImage
       /\ sent' = IF conn = "open" THEN sent + 1 ELSE sent
       /\ last' = Call("rbd_open", ictx, 0, 0, 0, 0, r, {},
                       IF conn = "open" THEN 1 ELSE 0)
    /\ budget' = budget - 1
    /\ UNCHANGED <<imageCtx, cClosed, comp, conn, inflight, responses, content,
                   known, flushed, pc, crashed, raw>>

\* rbd_close: prints a trace line and returns 0
rbd_close(image) ==
    /\ CanCall
    /\ image = cImage
    /\ cClosed' = cClosed \cup {image}
    /\ last' = Call("rbd_close", image, 0, 0, 0, 0, 0, {}, 0)
    /\ budget' = budget - 1
    /\ UNCHANGED <<ictxState, imageCtx, cImage, comp, conn, sent, inflight,
                   responses, content, known, flushed, pc, crashed, raw>>

\* the operation a call was accepted for, noted on a completion that is still pending
Bind(cr, op, h, len) ==
    IF cr.state = "Pending"
    THEN [cr EXCEPT !.op = op, !.h = h, !.req = 0, !.len = len]
    ELSE cr

\* rbd_aio_readv: completes the completion it is given; the read itself is
\* commented out (librbd.cc:3338-3341), so no byte reaches the caller's buffer buf
rbd_aio_readv(image, buf, off, c) ==
    /\ CanCall
    /\ image = cImage
    /\ c \in Constructed
    /\ comp' = [comp EXCEPT ![c] =
                  IF @.state = "Pending"
                  THEN [AioComplete(Bind(@, "read", image, Len(buf))) EXCEPT
                           !.buf = buf, !.exp = Expect(off, Len(buf))]
                  ELSE AioComplete(@)]
    /\ last' = Call("rbd_aio_readv", image, c, off, Len(buf), Len(buf), 0, {}, 0)
    /\ budget' = budget - 1
    /\ UNCHANGED <<ictxState, imageCtx, cImage, cClosed, conn, sent, inflight,
                   responses, content, known, flushed, pc, crashed, raw>>

\* the entry points that only print a trace line and return 0
AbiStub(name, op, image, off, len, c) ==
    /\ CanCall
    /\ image = cImage
    /\ c \in Constructed
    /\ comp' = [comp EXCEPT ![c] = Bind(@, op, image, len)]
    /\ known' = IF op \in Mutators THEN Forget(known, Range(off, len)) ELSE known
    /\ flushed' = IF op \in Mutators THEN Forget(flushed, Range(off, len)) ELSE flushed
    /\ last' = Call(name, image, c, off, len, len, 0, {}, 0)
    /\ budget' = budget - 1
    /\ UNCHANGED <<ictxState, imageCtx, cImage, cClosed, conn, sent, inflight,
                   responses, content, pc, crashed, raw>>

rbd_aio_writev(image, off, len, c) == AbiStub("rbd_aio_writev", "write", image, off, len, c)

rbd_aio_discard(image, off, len, c) == AbiStub("rbd_aio_discard", "discard", image, off, len, c)

rbd_aio_flush(image, c) == AbiStub("rbd_aio_flush", "flush", image, 0, 0, c)

rbd_aio_write_zeroes(image, off, len, c) ==
    AbiStub("rbd_aio_write_zeroes", "write_zeroes", image, off, len, c)

\* rbd_aio_release: prints a trace line and returns; nothing is released
rbd_aio_release(c) ==
    /\ CanCall
    /\ c \in Constructed
    /\ comp[c].rel = "no" /\ ~comp[c].wdel
    /\ last' = Call("rbd_aio_release", comp[c].h, c, 0, 0, 0, 0, {}, 0)
    /\ budget' = budget - 1
    /\ UNCHANGED <<ictxState, imageCtx, cImage, cClosed, comp, conn, sent, inflight,
                   responses, content, known, flushed, pc, crashed, raw>>

\* rbd_aio_create_completion: prints a trace line and returns 0; *c is not written
\* and no completion is created
rbd_aio_create_completion ==
    /\ CanCall
    /\ last' = Call("rbd_aio_create_completion", NULL, 0, 0, 0, 0, 0, {}, 0)
    /\ budget' = budget - 1
    /\ UNCHANGED <<ictxState, imageCtx, cImage, cClosed, comp, conn, sent, inflight,
                   responses, content, known, flushed, pc, crashed, raw>>

\* the snapshot entry points: each prints a trace line and returns 0
SnapStub(name, image) ==
    /\ CanCall
    /\ image = cImage
    /\ last' = Call(name, image, 0, 0, 0, 0, 0, {}, 0)
    /\ budget' = budget - 1
    /\ UNCHANGED <<ictxState, imageCtx, cImage, cClosed, comp, conn, sent, inflight,
                   responses, content, known, flushed, pc, crashed, raw>>

rbd_snap_create(image) == SnapStub("rbd_snap_create", image)

rbd_snap_remove(image) == SnapStub("rbd_snap_remove", image)

rbd_snap_rollback(image) == SnapStub("rbd_snap_rollback", image)

rbd_snap_list(image) == SnapStub("rbd_snap_list", image)

\* rbd_aio_get_return_value: prints a trace line and returns 0
rbd_aio_get_return_value(c) ==
    /\ CanCall
    /\ c \in Constructed
    /\ last' = Call("rbd_aio_get_return_value", comp[c].h, c, 0, 0, 0, 0, {}, 0)
    /\ budget' = budget - 1
    /\ UNCHANGED <<ictxState, imageCtx, cImage, cClosed, comp, conn, sent, inflight,
                   responses, content, known, flushed, pc, crashed, raw>>

(* ------------------------------------------------------------------ *)
(* librbd::RBD::AioCompletion                                          *)
(* ------------------------------------------------------------------ *)
\* RBD::AioCompletion::AioCompletion(cb_arg, complete_cb)
AioCompletion_ctor(c, hasCb) ==
    /\ CanCall
    /\ comp[c].state = "Free"
    /\ \A d \in Comps : comp[d].state = "Free" => c <= d
    /\ comp' = [comp EXCEPT ![c] = [FreeComp EXCEPT !.state = "Pending", !.hasCb = hasCb]]
    /\ last' = Call("AioCompletion", NULL, c, 0, 0, 0, 0, {}, 0)
    /\ budget' = budget - 1
    /\ UNCHANGED <<ictxState, imageCtx, cImage, cClosed, conn, sent, inflight,
                   responses, content, known, flushed, pc, crashed, raw>>

\* RBD::AioCompletion::get_return_value
AioCompletion_get_return_value(c) ==
    /\ CanCall
    /\ c \in Constructed
    /\ last' = Call("get_return_value", comp[c].h, c, 0, 0, 0, comp[c].rval, {}, 0)
    /\ budget' = budget - 1
    /\ UNCHANGED <<ictxState, imageCtx, cImage, cClosed, comp, conn, sent, inflight,
                   responses, content, known, flushed, pc, crashed, raw>>

\* a wrapper that returns 0 at once, as the entry points that only print a trace
\* line do, without asking the engine
AioCompletion_wait_for_complete_stub(c) ==
    /\ ~crashed
    /\ c \in Constructed
    /\ comp[c].wait = "none"
    /\ comp[c].rel = "no" /\ ~comp[c].wdel
    /\ comp' = [comp EXCEPT ![c].wait = "returned", ![c].wret = 0]
    /\ UNCHANGED <<ictxState, imageCtx, cImage, cClosed, conn, sent, inflight,
                   responses, content, known, flushed, pc, last, budget, crashed, raw>>

\* RBD::AioCompletion::wait_for_complete, called by a thread of its own: the call
\* is the engine's wait_for_complete on pc
AioCompletion_wait_for_complete(c) ==
    /\ ~crashed
    /\ c \in Constructed
    /\ comp[c].wait = "none"
    /\ comp[c].rel = "no" /\ ~comp[c].wdel
    /\ comp' = [comp EXCEPT ![c] = AioWait(@)]
    /\ UNCHANGED <<ictxState, imageCtx, cImage, cClosed, conn, sent, inflight,
                   responses, content, known, flushed, pc, last, budget, crashed, raw>>

\* RBD::AioCompletion::release: c->release(), then `delete this` whatever the state
AioCompletion_release(c) ==
    /\ CanCall
    /\ c \in Constructed
    /\ comp[c].rel = "no" /\ ~comp[c].wdel
    /\ comp' = [comp EXCEPT ![c] = [AioRelease(@) EXCEPT !.wdel = TRUE]]
    /\ last' = Call("release", comp[c].h, c, 0, 0, 0, 0, {}, 0)
    /\ budget' = budget - 1
    /\ UNCHANGED <<ictxState, imageCtx, cImage, cClosed, conn, sent, inflight,
                   responses, content, known, flushed, pc, crashed, raw>>

(* ------------------------------------------------------------------ *)
(* UserBufferDeleter and create_write_raw (librbd.cc:270-299)          *)
(* ------------------------------------------------------------------ *)
\* UserBufferDeleter::UserBufferDeleter: aio_completion->block(cct)
UserBufferDeleter_ctor(cr) == AioBlock(cr)

\* UserBufferDeleter::~UserBufferDeleter: aio_completion->unblock(cct)
UserBufferDeleter_dtor(cr) == AioUnblock(cr)

\* a faulty create_write_raw that copies only when there is no completion
create_write_raw_ignores_config(disable_zero_copy, buf, len, c) ==
    IF c = 0
    THEN [NoRaw EXCEPT !.mode = "copy", !.c = c, !.orig = Prefix(buf, len),
                       !.data = Prefix(buf, len), !.mem = buf, !.refs = 1,
                       !.dz = disable_zero_copy]
    ELSE [NoRaw EXCEPT !.mode = "claim", !.c = c, !.orig = Prefix(buf, len),
                       !.mem = buf, !.refs = 1, !.dz = disable_zero_copy]

\* create_write_raw(ictx, buf, len, aio_completion), c = 0 standing for nullptr:
\* buffer::copy when ictx->disable_zero_copy or without a completion, else
\* buffer::claim_buffer on the caller's memory with a UserBufferDeleter.
\* orig: the caller's bytes at the call; data: the bytes of a copy; mem: the caller's
\* memory now; refs: references the library holds on the raw buffer.
create_write_raw(disable_zero_copy, buf, len, c) ==
    IF disable_zero_copy \/ c = 0
    THEN [NoRaw EXCEPT !.mode = "copy", !.c = c, !.orig = Prefix(buf, len),
                       !.data = Prefix(buf, len), !.mem = buf, !.refs = 1,
                       !.dz = disable_zero_copy]
    ELSE [NoRaw EXCEPT !.mode = "claim", !.c = c, !.orig = Prefix(buf, len),
                       !.mem = buf, !.refs = 1, !.dz = disable_zero_copy]

\* the bytes the raw buffer holds now
RawBytes(x) == IF x.mode = "copy" THEN x.data ELSE Prefix(x.mem, Len(x.orig))

\* a write path calls create_write_raw on the caller's buffer, with completion c or
\* without one, and returns to the caller
CreateWriteRaw(h, buf, c) ==
    /\ ~crashed
    /\ raw.mode = "none"
    /\ h # NULL /\ h = imageCtx /\ ictxState[h].st = "open"
    /\ Len(buf) > 0
    /\ c = 0 \/ (c \in Comps /\ FirstFresh(c))
    /\ LET x == create_write_raw(ictxState[h].disable_zero_copy, buf, Len(buf), c) IN
       /\ raw' = x
       /\ comp' = IF c = 0 THEN comp
                  ELSE [comp EXCEPT ![c] =
                          IF x.mode = "claim"
                          THEN UserBufferDeleter_ctor(Bind(@, "write", h, Len(buf)))
                          ELSE Bind(@, "write", h, Len(buf))]
    /\ UNCHANGED <<ictxState, imageCtx, cImage, cClosed, conn, sent, inflight,
                   responses, content, known, flushed, pc, last, budget, crashed>>

\* the caller overwrites its buffer after the call has returned
CallerModify(b) ==
    /\ ~crashed
    /\ raw.mode # "none"
    /\ Len(b) = Len(raw.mem) /\ b # raw.mem
    /\ raw' = [raw EXCEPT !.mem = b]
    /\ UNCHANGED <<ictxState, imageCtx, cImage, cClosed, comp, conn, sent, inflight,
                   responses, content, known, flushed, pc, last, budget, crashed>>

\* the bytes of the raw buffer are written to the image
RawWrite ==
    /\ ~crashed
    /\ raw.refs > 0 /\ raw.out = <<>>
    /\ raw' = [raw EXCEPT !.out = RawBytes(raw)]
    /\ content' = WriteBytes(content, 0, RawBytes(raw))
    /\ UNCHANGED <<ictxState, imageCtx, cImage, cClosed, comp, conn, sent, inflight,
                   responses, known, flushed, pc, last, budget, crashed>>

\* the write is resolved on its completion
RawResolve ==
    /\ ~crashed
    /\ raw.out # <<>> /\ raw.c # 0
    /\ comp[raw.c].state = "Pending" /\ comp[raw.c].held = <<>>
    /\ comp' = [comp EXCEPT ![raw.c] = Resolve(@, Len(raw.out))]
    /\ UNCHANGED <<ictxState, imageCtx, cImage, cClosed, conn, sent, inflight,
                   responses, content, known, flushed, pc, last, budget, crashed, raw>>

\* the last reference to the raw buffer is dropped: a claimed buffer runs its deleter
RawRelease ==
    /\ ~crashed
    /\ raw.refs > 0 /\ raw.out # <<>>
    /\ raw' = [raw EXCEPT !.refs = 0]
    /\ comp' = IF raw.mode = "claim"
               THEN [comp EXCEPT ![raw.c] = UserBufferDeleter_dtor(@)]
               ELSE comp
    /\ UNCHANGED <<ictxState, imageCtx, cImage, cClosed, conn, sent, inflight,
                   responses, content, known, flushed, pc, last, budget, crashed>>

(* ------------------------------------------------------------------ *)
(* librbd::RBD::open, librbd::Image::close / aio_close                 *)
(* ------------------------------------------------------------------ *)
\* RBD::open on an Image that holds no session
RBD_open(r, dz) ==
    /\ CanCall
    /\ CanAlloc
    /\ imageCtx = NULL
    /\ r \in OpenResults
    /\ \E ictx \in NewIctx :
       /\ ictxState' = Opened(ictx, r, dz)
       /\ imageCtx' = IF r < 0 THEN imageCtx ELSE ictx
       /\ sent' = IF conn = "open" THEN sent + 1 ELSE sent
       /\ last' = Call("RBD_open", ictx, 0, 0, 0, 0, IF r < 0 THEN r ELSE 0, {},
                       IF conn = "open" THEN 1 ELSE 0)
    /\ budget' = budget - 1
    /\ UNCHANGED <<cImage, cClosed, comp, conn, inflight, responses, content,
                   known, flushed, pc, crashed, raw>>

\* RBD::open on an Image that holds a session: the old session is closed first
\* (the caller blocks in ImageState::close until the session is drained)
RBD_open_close_old ==
    /\ CanCall
    /\ CanAlloc
    /\ imageCtx # NULL
    /\ \E ictx \in NewIctx :
       /\ ictxState' = [ictxState EXCEPT ![imageCtx].st = "closing",
                                           ![imageCtx].closes = @ + 1,
                                           ![ictx].st = "new"]
       /\ pc' = [op |-> "RBD_open", h |-> imageCtx, new |-> ictx]
    /\ budget' = budget - 1
    /\ UNCHANGED <<imageCtx, cImage, cClosed, comp, conn, sent, inflight, responses,
                   content, known, flushed, last, crashed, raw>>

\* a faulty reopen that leaves image.ctx on the old session when the new open fails
RBD_open_resume_keeps_old(r, dz) ==
    /\ ~crashed
    /\ pc.op = "RBD_open"
    /\ Outstanding(pc.h) = {}
    /\ ictxState[pc.h].closer = 0
    /\ r \in OpenResults
    /\ ictxState' = [Opened(pc.new, r, dz) EXCEPT ![pc.h].st = "closed"]
    /\ imageCtx' = IF r < 0 THEN imageCtx ELSE pc.new
    /\ sent' = IF conn = "open" THEN sent + 2 ELSE sent
    /\ last' = Call("RBD_open", pc.new, 0, 0, 0, 0, IF r < 0 THEN r ELSE 0, {},
                    IF conn = "open" THEN 2 ELSE 0)
    /\ pc' = Idle
    /\ UNCHANGED <<cImage, cClosed, comp, conn, inflight, responses, content,
                   known, flushed, budget, crashed, raw>>

\* ... then image.ctx is cleared and the new session opened
RBD_open_resume(r, dz) ==
    /\ ~crashed
    /\ pc.op = "RBD_open"
    /\ Outstanding(pc.h) = {}
    /\ ictxState[pc.h].closer = 0
    /\ r \in OpenResults
    /\ ictxState' = [Opened(pc.new, r, dz) EXCEPT ![pc.h].st = "closed"]
    /\ imageCtx' = IF r < 0 THEN NULL ELSE pc.new
    /\ sent' = IF conn = "open" THEN sent + 2 ELSE sent
    /\ last' = Call("RBD_open", pc.new, 0, 0, 0, 0, IF r < 0 THEN r ELSE 0, {},
                    IF conn = "open" THEN 2 ELSE 0)
    /\ pc' = Idle
    /\ UNCHANGED <<cImage, cClosed, comp, conn, inflight, responses, content,
                   known, flushed, budget, crashed, raw>>

\* RBD::aio_open: returns 0 at once. On an Image that holds a session the close of
\* that session is issued with a C_OpenAfterCloseComplete context and image.ctx is
\* left as it is; otherwise the open is issued with a C_OpenComplete context.
\* (The completion's op and h note the context: the open of the new ImageCtx h.)
RBD_aio_open(c) ==
    /\ CanCall
    /\ CanAlloc
    /\ FirstFresh(c)
    /\ imageCtx # NULL => ictxState[imageCtx].st = "open"
    /\ \E ictx \in NewIctx :
       /\ ictxState' = IF imageCtx # NULL
                       THEN [ictxState EXCEPT ![imageCtx].st = "closing",
                                              ![imageCtx].closer = c,
                                              ![imageCtx].closes = @ + 1,
                                              ![ictx].st = "new"]
                       ELSE [ictxState EXCEPT ![ictx].st = "opening",
                                              ![ictx].closer = c]
       /\ comp' = [comp EXCEPT ![c] = Bind(@, "open", ictx, 0)]
       /\ last' = Call("RBD_aio_open", ictx, c, 0, 0, 0, 0, {}, 0)
    /\ budget' = budget - 1
    /\ UNCHANGED <<imageCtx, cImage, cClosed, conn, sent, inflight, responses,
                   content, known, flushed, pc, crashed, raw>>

\* a faulty context that gives up when the close failed: it fails the caller's
\* completion with the close's result and issues no open
C_OpenAfterCloseComplete_finish_checks_r(h, r) ==
    /\ ~crashed
    /\ ictxState[h].st = "closing"
    /\ ictxState[h].closer # 0
    /\ comp[ictxState[h].closer].op = "open"
    /\ Outstanding(h) = {}
    /\ r \in CloseResults
    /\ ictxState' = [ictxState EXCEPT ![h].st = "closed", ![h].res = r,
                                      ![h].closer = 0,
                                      ![comp[ictxState[h].closer].h].st =
                                          IF r < 0 THEN "closed" ELSE "opening",
                                      ![comp[ictxState[h].closer].h].closer =
                                          IF r < 0 THEN 0 ELSE ictxState[h].closer]
    /\ imageCtx' = NULL
    /\ comp' = IF r < 0
               THEN [comp EXCEPT ![ictxState[h].closer] = C_AioCompletion_finish(@, r)]
               ELSE comp
    /\ UNCHANGED <<cImage, cClosed, conn, sent, inflight, responses,
                   content, known, flushed, pc, last, budget, crashed, raw>>

\* C_OpenAfterCloseComplete::finish(r), run when the close of the old session h has
\* finished: the old context is deleted, *ictxp = nullptr, and the open of the new
\* ImageCtx is issued with a C_OpenComplete context; r is not looked at
C_OpenAfterCloseComplete_finish(h, r) ==
    /\ ~crashed
    /\ ictxState[h].st = "closing"
    /\ ictxState[h].closer # 0
    /\ comp[ictxState[h].closer].op = "open"
    /\ Outstanding(h) = {}
    /\ r \in CloseResults
    /\ ictxState' = [ictxState EXCEPT ![h].st = "closed", ![h].res = r,
                                      ![h].closer = 0,
                                      ![comp[ictxState[h].closer].h].st = "opening",
                                      ![comp[ictxState[h].closer].h].closer =
                                          ictxState[h].closer]
    /\ imageCtx' = NULL
    /\ UNCHANGED <<cImage, cClosed, comp, conn, sent, inflight, responses,
                   content, known, flushed, pc, last, budget, crashed, raw>>

\* a faulty context that resolves the completion before it writes the handle slot:
\* the state the callback and the waiter are woken in
C_OpenComplete_finish_resolves_first(h, r) ==
    /\ ~crashed
    /\ ictxState[h].st = "opening"
    /\ r \in OpenResults
    /\ ictxState' = Opened(h, r, FALSE)
    /\ comp' = [comp EXCEPT ![ictxState[h].closer] = C_AioCompletion_finish(@, r)]
    /\ sent' = IF conn = "open" THEN sent + 1 ELSE sent
    /\ UNCHANGED <<imageCtx, cImage, cClosed, conn, inflight, responses, content,
                   known, flushed, pc, last, budget, crashed, raw>>

\* C_OpenComplete::finish(r), run when the open of ImageCtx h has finished:
\* *ictxp = nullptr on r < 0 and *ictxp = ictx otherwise, then
\* C_AioCompletion::finish(r)
C_OpenComplete_finish(h, r) ==
    /\ ~crashed
    /\ ictxState[h].st = "opening"
    /\ r \in OpenResults
    /\ ictxState' = Opened(h, r, FALSE)
    /\ imageCtx' = IF r < 0 THEN NULL ELSE h
    /\ comp' = [comp EXCEPT ![ictxState[h].closer] = C_AioCompletion_finish(@, r)]
    /\ sent' = IF conn = "open" THEN sent + 1 ELSE sent
    /\ UNCHANGED <<cImage, cClosed, conn, inflight, responses, content,
                   known, flushed, pc, last, budget, crashed, raw>>

\* Image::close on an Image without a session returns 0; with a session the caller
\* blocks in ImageState::close
Image_close ==
    /\ CanCall
    /\ IF imageCtx = NULL
       THEN /\ last' = Call("Image_close", NULL, 0, 0, 0, 0, 0, {}, 0)
            /\ UNCHANGED <<ictxState, pc>>
       ELSE /\ ictxState' = [ictxState EXCEPT ![imageCtx].st = "closing",
                                               ![imageCtx].closes = @ + 1]
            /\ pc' = [op |-> "Image_close", h |-> imageCtx, new |-> NULL]
            /\ UNCHANGED last
    /\ budget' = budget - 1
    /\ UNCHANGED <<imageCtx, cImage, cClosed, comp, conn, sent, inflight, responses,
                   content, known, flushed, crashed, raw>>

\* ... until the session is drained; then ctx = NULL and the result is returned
Image_close_return(r) ==
    /\ ~crashed
    /\ pc.op = "Image_close"
    /\ Outstanding(pc.h) = {}
    /\ ictxState[pc.h].closer = 0
    /\ r \in CloseResults
    /\ ictxState' = [ictxState EXCEPT ![pc.h].st = "closed", ![pc.h].res = r]
    /\ imageCtx' = NULL
    /\ sent' = IF conn = "open" THEN sent + 1 ELSE sent
    /\ last' = Call("Image_close", pc.h, 0, 0, 0, 0, r, {},
                    IF conn = "open" THEN 1 ELSE 0)
    /\ pc' = Idle
    /\ UNCHANGED <<cImage, cClosed, comp, conn, inflight, responses, content,
                   known, flushed, budget, crashed, raw>>

\* a faulty aio_close that leaves ctx on the session it is closing
Image_aio_close_keeps_ctx(c) ==
    /\ CanCall
    /\ FirstFresh(c)
    /\ IF imageCtx = NULL
       THEN /\ last' = Call("Image_aio_close", NULL, c, 0, 0, 0, -EINVAL, {}, 0)
            /\ UNCHANGED <<ictxState, comp>>
       ELSE /\ ictxState' = [ictxState EXCEPT ![imageCtx].st = "closing",
                                               ![imageCtx].closer = c,
                                               ![imageCtx].closes = @ + 1]
            /\ comp' = [comp EXCEPT ![c] = Bind(@, "close", imageCtx, 0)]
            /\ last' = Call("Image_aio_close", imageCtx, c, 0, 0, 0, 0, {}, 0)
    /\ budget' = budget - 1
    /\ UNCHANGED <<imageCtx, cImage, cClosed, conn, sent, inflight, responses, content,
                   known, flushed, pc, crashed, raw>>

\* Image::aio_close
Image_aio_close(c) ==
    /\ CanCall
    /\ FirstFresh(c)
    /\ IF imageCtx = NULL
       THEN /\ last' = Call("Image_aio_close", NULL, c, 0, 0, 0, -EINVAL, {}, 0)
            /\ UNCHANGED <<ictxState, imageCtx, comp>>
       ELSE /\ ictxState' = [ictxState EXCEPT ![imageCtx].st = "closing",
                                               ![imageCtx].closer = c,
                                               ![imageCtx].closes = @ + 1]
            /\ comp' = [comp EXCEPT ![c] = Bind(@, "close", imageCtx, 0)]
            /\ imageCtx' = NULL
            /\ last' = Call("Image_aio_close", imageCtx, c, 0, 0, 0, 0, {}, 0)
    /\ budget' = budget - 1
    /\ UNCHANGED <<cImage, cClosed, conn, sent, inflight, responses, content,
                   known, flushed, pc, crashed, raw>>

(* ------------------------------------------------------------------ *)
(* librbd::Image I/O wrappers                                          *)
(* ------------------------------------------------------------------ *)
\* a faulty check that also turns away a buffer of exactly len bytes
write_invalid_strict(len, bl) == Len(bl) <= len

\* the local checks of the wrappers
write_invalid(len, bl) == Len(bl) < len

\* a faulty check without the test of the remainder
writesame_invalid_no_remainder(len, bl) == Len(bl) <= 0 \/ len > INT_MAX

\* (lengths beyond INT_MAX lie outside the model's bounds, so the third test of
\* Image::writesame is never the deciding one here)
writesame_invalid(len, bl) == Len(bl) <= 0 \/ len % Len(bl) # 0 \/ len > INT_MAX

aio_writesame_invalid(len, bl) == Len(bl) <= 0 \/ len % Len(bl) # 0

\* a wrapper returns -EINVAL before it uses the image context
Rejected(name, c, ofs, len, blen) ==
    /\ last' = Call(name, imageCtx, c, ofs, len, blen, -EINVAL, {}, 0)
    /\ budget' = budget - 1
    /\ UNCHANGED <<ictxState, imageCtx, cImage, cClosed, comp, conn, sent, inflight,
                   responses, content, known, flushed, pc, crashed, raw>>

\* a wrapper uses ictx->io_work_queue (or ictx->config) of a null image context
NullDeref(name, c, ofs, len, blen) ==
    /\ crashed' = TRUE
    /\ last' = Call(name, NULL, c, ofs, len, blen, 0, {}, 0)
    /\ budget' = budget - 1
    /\ UNCHANGED <<ictxState, imageCtx, cImage, cClosed, comp, conn, sent, inflight,
                   responses, content, known, flushed, pc, raw>>

\* a wrapper hands one synchronous request to ictx->io_work_queue and returns its
\* result; gcmp is the caller's comparison buffer
SyncIo(name, kind, ofs, len, blen, data, cmp, gcmp) ==
    LET x == WQ_sync(kind, ofs, len, data, cmp) IN
    /\ WQ_sync_effect(kind, ofs, len, data, x)
    /\ last' = [Call(name, imageCtx, 0, ofs, len, blen, x.status, {<<kind, ofs, len>>},
                     IF conn = "open" THEN 1 ELSE 0) EXCEPT
                   !.buf = x.out,
                   !.exp = IF kind = "read" THEN Expect(ofs, len) ELSE {},
                   !.mm = x.mm,
                   !.xmm = IF kind = "cas" /\ conn = "open"
                           THEN ExpectMismatch(content, ofs, len, gcmp) ELSE <<>>]
    /\ budget' = budget - 1
    /\ UNCHANGED <<ictxState, imageCtx, cImage, cClosed, comp, conn, pc, crashed, raw>>

\* a wrapper hands one asynchronous request to ictx->io_work_queue and returns 0
AsyncIo(name, kind, c, ofs, len, blen, data, cmp, gcmp) ==
    /\ WQ_aio(kind, c, imageCtx, ofs, len, data, cmp, gcmp)
    /\ last' = Call(name, imageCtx, c, ofs, len, blen, 0, {<<kind, ofs, len>>},
                    IF conn = "open" THEN 1 ELSE 0)
    /\ budget' = budget - 1
    /\ UNCHANGED <<ictxState, imageCtx, cImage, cClosed, conn, content, pc, crashed, raw>>

\* Image::read / read2
Image_read(ofs, len) ==
    /\ CanCall
    /\ IF imageCtx = NULL THEN NullDeref("Image_read", 0, ofs, len, len)
       ELSE SyncIo("Image_read", "read", ofs, len, len, <<>>, <<>>, <<>>)

\* Image::write
Image_write(ofs, len, bl) ==
    /\ CanCall
    /\ IF write_invalid(len, bl) THEN Rejected("Image_write", 0, ofs, len, Len(bl))
       ELSE IF imageCtx = NULL THEN NullDeref("Image_write", 0, ofs, len, Len(bl))
       ELSE SyncIo("Image_write", "write", ofs, len, Len(bl), Prefix(bl, len), <<>>, <<>>)

\* Image::write2
Image_write2(ofs, len, bl) ==
    /\ CanCall
    /\ IF write_invalid(len, bl) THEN Rejected("Image_write2", 0, ofs, len, Len(bl))
       ELSE IF imageCtx = NULL THEN NullDeref("Image_write2", 0, ofs, len, Len(bl))
       ELSE SyncIo("Image_write2", "write", ofs, len, Len(bl), Prefix(bl, len), <<>>, <<>>)

\* Image::flush
Image_flush ==
    /\ CanCall
    /\ IF imageCtx = NULL THEN NullDeref("Image_flush", 0, 0, 0, 0)
       ELSE SyncIo("Image_flush", "flush", 0, 0, 0, <<>>, <<>>, <<>>)

\* Image::writesame
Image_writesame(ofs, len, bl) ==
    /\ CanCall
    /\ IF writesame_invalid(len, bl) THEN Rejected("Image_writesame", 0, ofs, len, Len(bl))
       ELSE IF imageCtx = NULL THEN NullDeref("Image_writesame", 0, ofs, len, Len(bl))
       ELSE IF ictxState[imageCtx].discard_zero /\ is_zero(bl)
       THEN SyncIo("Image_writesame", "write_zeroes", ofs, len, Len(bl), <<>>, <<>>, <<>>)
       ELSE SyncIo("Image_writesame", "writesame", ofs, len, Len(bl), bl, <<>>, <<>>)

\* a faulty wrapper that hands the two buffers over in the wrong order
Image_compare_and_write_swapped(ofs, len, cmp_bl, bl) ==
    /\ CanCall
    /\ IF write_invalid(len, bl)
       THEN Rejected("Image_compare_and_write", 0, ofs, len, Len(bl))
       ELSE IF imageCtx = NULL
       THEN NullDeref("Image_compare_and_write", 0, ofs, len, Len(bl))
       ELSE SyncIo("Image_compare_and_write", "cas", ofs, len, Len(bl),
                   cmp_bl, Prefix(bl, len), cmp_bl)

\* Image::compare_and_write
Image_compare_and_write(ofs, len, cmp_bl, bl) ==
    /\ CanCall
    /\ IF write_invalid(len, bl)
       THEN Rejected("Image_compare_and_write", 0, ofs, len, Len(bl))
       ELSE IF imageCtx = NULL THEN NullDeref("Image_compare_and_write", 0, ofs, len, Len(bl))
       ELSE SyncIo("Image_compare_and_write", "cas", ofs, len, Len(bl),
                   Prefix(bl, len), cmp_bl, cmp_bl)

\* Image::aio_write
Image_aio_write(off, len, bl, c) ==
    /\ CanCall
    /\ FirstFresh(c)
    /\ IF write_invalid(len, bl) THEN Rejected("Image_aio_write", c, off, len, Len(bl))
       ELSE IF imageCtx = NULL THEN NullDeref("Image_aio_write", c, off, len, Len(bl))
       ELSE AsyncIo("Image_aio_write", "write", c, off, len, Len(bl), Prefix(bl, len),
                    <<>>, <<>>)

\* Image::aio_write2
Image_aio_write2(off, len, bl, c) ==
    /\ CanCall
    /\ FirstFresh(c)
    /\ IF write_invalid(len, bl) THEN Rejected("Image_aio_write2", c, off, len, Len(bl))
       ELSE IF imageCtx = NULL THEN NullDeref("Image_aio_write2", c, off, len, Len(bl))
       ELSE AsyncIo("Image_aio_write2", "write", c, off, len, Len(bl), Prefix(bl, len),
                    <<>>, <<>>)

\* Image::aio_read / aio_read2
Image_aio_read(off, len, c) ==
    /\ CanCall
    /\ FirstFresh(c)
    /\ IF imageCtx = NULL THEN NullDeref("Image_aio_read", c, off, len, len)
       ELSE AsyncIo("Image_aio_read", "read", c, off, len, len, <<>>, <<>>, <<>>)

\* Image::aio_flush
Image_aio_flush(c) ==
    /\ CanCall
    /\ FirstFresh(c)
    /\ IF imageCtx = NULL THEN NullDeref("Image_aio_flush", c, 0, 0, 0)
       ELSE AsyncIo("Image_aio_flush", "flush", c, 0, 0, 0, <<>>, <<>>, <<>>)

\* Image::aio_writesame
Image_aio_writesame(off, len, bl, c) ==
    /\ CanCall
    /\ FirstFresh(c)
    /\ IF aio_writesame_invalid(len, bl)
       THEN Rejected("Image_aio_writesame", c, off, len, Len(bl))
       ELSE IF imageCtx = NULL THEN NullDeref("Image_aio_writesame", c, off, len, Len(bl))
       ELSE IF ictxState[imageCtx].discard_zero /\ is_zero(bl)
       THEN AsyncIo("Image_aio_writesame", "write_zeroes", c, off, len, Len(bl),
                    <<>>, <<>>, <<>>)
       ELSE AsyncIo("Image_aio_writesame", "writesame", c, off, len, Len(bl), bl,
                    <<>>, <<>>)

\* Image::aio_compare_and_write
Image_aio_compare_and_write(off, len, cmp_bl, bl, c) ==
    /\ CanCall
    /\ FirstFresh(c)
    /\ IF write_invalid(len, bl)
       THEN Rejected("Image_aio_compare_and_write", c, off, len, Len(bl))
       ELSE IF imageCtx = NULL THEN NullDeref("Image_aio_compare_and_write", c, off, len, Len(bl))
       ELSE AsyncIo("Image_aio_compare_and_write", "cas", c, off, len, Len(bl),
                    Prefix(bl, len), cmp_bl, cmp_bl)

(* ------------------------------------------------------------------ *)
(* Specification                                                       *)
(* ------------------------------------------------------------------ *)
\* comparison buffers cover the compared range
CmpBufs(len) == {b \in AllBufs : Len(b) = len}

Next ==
    \/ \E r \in {0, OpenError, ChannelClosed} : rbd_open(r)
    \/ rbd_close(cImage)
    \/ \E buf \in ReadBufs, off \in Offsets, c \in Comps : rbd_aio_readv(cImage, buf, off, c)
    \/ \E off \in Offsets, len \in Lens, c \in Comps : rbd_aio_writev(cImage, off, len, c)
    \/ \E off \in Offsets, len \in Lens, c \in Comps : rbd_aio_discard(cImage, off, len, c)
    \/ \E c \in Comps : rbd_aio_flush(cImage, c)
    \/ \E off \in Offsets, len \in Lens, c \in Comps : rbd_aio_write_zeroes(cImage, off, len, c)
    \/ \E c \in Comps : rbd_aio_get_return_value(c)
    \/ \E c \in Comps, hasCb \in BOOLEAN : AioCompletion_ctor(c, hasCb)
    \/ \E c \in Comps : AioCompletion_get_return_value(c)
    \/ \E r \in {0, OpenError, ChannelClosed}, dz \in BOOLEAN : RBD_open(r, dz)
    \/ RBD_open_close_old
    \/ \E r \in {0, OpenError, ChannelClosed}, dz \in BOOLEAN : RBD_open_resume(r, dz)
    \/ Image_close
    \/ \E r \in {0, CloseError} : Image_close_return(r)
    \/ \E c \in Comps : Image_aio_close(c)
    \/ \E h \in Ictxs, r \in {0, CloseError} : ImageState_close_finish(h, r)
    \/ \E ofs \in Offsets, len \in Lens : Image_read(ofs, len)
    \/ \E ofs \in Offsets, len \in Lens, bl \in Bufs : Image_write(ofs, len, bl)
    \/ \E ofs \in Offsets, len \in Lens, bl \in Bufs : Image_write2(ofs, len, bl)
    \/ Image_flush
    \/ \E ofs \in Offsets, len \in Lens, bl \in Bufs : Image_writesame(ofs, len, bl)
    \/ \E ofs \in Offsets, len \in Lens, bl \in Bufs :
          \E cmp_bl \in CmpBufs(len) : Image_compare_and_write(ofs, len, cmp_bl, bl)
    \/ \E off \in Offsets, len \in Lens, bl \in Bufs, c \in Comps : Image_aio_write(off, len, bl, c)
    \/ \E off \in Offsets, len \in Lens, bl \in Bufs, c \in Comps : Image_aio_write2(off, len, bl, c)
    \/ \E off \in Offsets, len \in Lens, c \in Comps : Image_aio_read(off, len, c)
    \/ \E c \in Comps : Image_aio_flush(c)
    \/ \E off \in Offsets, len \in Lens, bl \in Bufs, c \in Comps :
          Image_aio_writesame(off, len, bl, c)
    \/ \E off \in Offsets, len \in Lens, bl \in Bufs, c \in Comps :
          \E cmp_bl \in CmpBufs(len) : Image_aio_compare_and_write(off, len, cmp_bl, bl, c)
    \/ \E r \in inflight : Backend_process(r)
    \/ \E r \in responses : ReceiveLoop(r)
    \/ ConnectionDrop

Spec == Init /\ [][Next]_vars

\* opening, reopening and closing the session of one Image object, synchronously
\* and asynchronously, with flushes in flight on the session. The caller starts no
\* second asynchronous close on a session and no flush on a session that is closing.
SessionOpen == IF imageCtx = NULL THEN TRUE ELSE ictxState[imageCtx].st = "open"

NextOpen ==
    \/ \E r \in {0, OpenError, ChannelClosed} : RBD_open(r, FALSE)
    \/ RBD_open_close_old
    \/ \E r \in {0, OpenError, ChannelClosed} : RBD_open_resume(r, FALSE)
    \/ \E c \in Comps : RBD_aio_open(c)
    \/ \E h \in Ictxs, r \in {0, CloseError} : C_OpenAfterCloseComplete_finish(h, r)
    \/ \E h \in Ictxs, r \in {0, OpenError, ChannelClosed} : C_OpenComplete_finish(h, r)
    \/ Image_close
    \/ \E r \in {0, CloseError} : Image_close_return(r)
    \/ \E c \in Comps : SessionOpen /\ Image_aio_close(c)
    \/ \E h \in Ictxs, r \in {0, CloseError} : ImageState_close_finish(h, r)
    \/ \E c \in Comps : SessionOpen /\ Image_aio_flush(c)
    \/ \E r \in inflight : Backend_process(r)
    \/ \E r \in responses : ReceiveLoop(r)
    \/ \E c \in Comps : AioCompletion_wait_for_complete(c)
    \/ ConnectionDrop

SpecOpen == InitOpen /\ [][NextOpen]_vars

\* the caller has made no call since the drawn state
FirstCall == last = NoCall

\* one call of an Image wrapper (or one rbd_aio_readv) in a state drawn by InitIo,
\* followed by the steps of the collaborators
NextIo ==
    \/ \E ofs \in Offsets, len \in Lens : FirstCall /\ Image_read(ofs, len)
    \/ \E ofs \in Offsets, len \in Lens, bl \in Bufs : FirstCall /\ Image_write(ofs, len, bl)
    \/ \E ofs \in Offsets, len \in Lens, bl \in Bufs : FirstCall /\ Image_write2(ofs, len, bl)
    \/ FirstCall /\ Image_flush
    \/ \E ofs \in Offsets, len \in Lens, bl \in Bufs :
          FirstCall /\ Image_writesame(ofs, len, bl)
    \/ \E ofs \in Offsets, len \in Lens, bl \in Bufs :
          \E cmp_bl \in CmpBufs(len) :
              FirstCall /\ Image_compare_and_write(ofs, len, cmp_bl, bl)
    \/ \E off \in Offsets, len \in Lens, bl \in Bufs, c \in Comps :
          FirstCall /\ Image_aio_write(off, len, bl, c)
    \/ \E off \in Offsets, len \in Lens, bl \in Bufs, c \in Comps :
          FirstCall /\ Image_aio_write2(off, len, bl, c)
    \/ \E off \in Offsets, len \in Lens, c \in Comps :
          FirstCall /\ Image_aio_read(off, len, c)
    \/ \E c \in Comps : FirstCall /\ Image_aio_flush(c)
    \/ \E off \in Offsets, len \in Lens, bl \in Bufs, c \in Comps :
          FirstCall /\ Image_aio_writesame(off, len, bl, c)
    \/ \E off \in Offsets, len \in Lens, bl \in Bufs, c \in Comps :
          \E cmp_bl \in CmpBufs(len) :
              FirstCall /\ Image_aio_compare_and_write(off, len, cmp_bl, bl, c)
    \/ \E c \in Comps : FirstCall /\ Image_aio_close(c)
    \/ \E buf \in ReadBufs, off \in Offsets, c \in Comps :
          FirstCall /\ rbd_aio_readv(cImage, buf, off, c)
    \/ \E h \in Ictxs, r \in {0, CloseError} : ImageState_close_finish(h, r)
    \/ \E r \in inflight : Backend_process(r)
    \/ \E r \in responses : ReceiveLoop(r)
    \/ ConnectionDrop

SpecIo == InitIo /\ [][NextIo]_vars

\* a caller that uses the C entry points next to Image::read, write and flush
NextRun ==
    \/ rbd_close(cImage)
    \/ \E buf \in ReadBufs, off \in Offsets, c \in Comps : rbd_aio_readv(cImage, buf, off, c)
    \/ \E off \in Offsets, len \in Lens, c \in Comps : rbd_aio_writev(cImage, off, len, c)
    \/ \E c \in Comps : rbd_aio_flush(cImage, c)
    \/ \E c \in Comps : rbd_aio_get_return_value(c)
    \/ \E c \in Comps : AioCompletion_get_return_value(c)
    \/ \E ofs \in Offsets, len \in Lens : Image_read(ofs, len)
    \/ \E ofs \in Offsets, len \in Lens, bl \in Bufs : Image_write(ofs, len, bl)
    \/ Image_flush
    \/ \E off \in Offsets, len \in Lens, c \in Comps : Image_aio_read(off, len, c)
    \/ \E r \in inflight : Backend_process(r)
    \/ \E r \in responses : ReceiveLoop(r)
    \/ ConnectionDrop

SpecRun == InitRun /\ [][NextRun]_vars

\* ... with a backend that answers every request it holds and a receive loop that
\* hands every response on
FairRun ==
    /\ SpecRun
    /\ WF_vars(\E r \in inflight : Backend_process(r))
    /\ WF_vars(\E r \in responses : ReceiveLoop(r))

\* the caller issues asynchronous operations, closes the image or releases a
\* completion, while other threads wait on the completions
NextEng ==
    \/ \E off \in Offsets, len \in Lens, c \in Comps : Image_aio_read(off, len, c)
    \/ \E c \in Comps : Image_aio_flush(c)
    \/ \E buf \in ReadBufs, off \in Offsets, c \in Comps : rbd_aio_readv(cImage, buf, off, c)
    \/ Image_close
    \/ \E r \in CloseResults : Image_close_return(r)
    \/ \E c \in Comps : AioCompletion_wait_for_complete(c)
    \/ \E c \in Comps : AioCompletion_release(c)
    \/ \E c \in Comps : rbd_aio_release(c)
    \/ \E r \in inflight : Backend_process(r)
    \/ \E r \in responses : ReceiveLoop(r)
    \/ ConnectionDrop

SpecEng == InitEng /\ [][NextEng]_vars

\* the caller uses the exported C entry points only (its completions are
\* RBD::AioCompletion objects, as rbd_aio_readv takes them to be)
NextAbi ==
    \/ \E r \in {0, OpenError, ChannelClosed} : rbd_open(r)
    \/ rbd_close(cImage)
    \/ rbd_aio_create_completion
    \/ \E c \in Comps, hasCb \in BOOLEAN : AioCompletion_ctor(c, hasCb)
    \/ \E buf \in ReadBufs, off \in Offsets, c \in Comps : rbd_aio_readv(cImage, buf, off, c)
    \/ \E off \in Offsets, len \in Lens, c \in Comps : rbd_aio_writev(cImage, off, len, c)
    \/ \E c \in Comps : rbd_aio_release(c)
    \/ rbd_snap_create(cImage)
    \/ rbd_snap_remove(cImage)
    \/ rbd_snap_rollback(cImage)
    \/ rbd_snap_list(cImage)
    \/ ConnectionDrop

SpecAbi == Init /\ [][NextAbi]_vars

\* one use of create_write_raw and what follows it
NextRaw ==
    \/ \E buf \in AllBufs, c \in {0} \cup Comps : CreateWriteRaw(imageCtx, buf, c)
    \/ \E b \in AllBufs : CallerModify(b)
    \/ RawWrite
    \/ RawResolve
    \/ RawRelease
    \/ \E c \in Comps : AioCompletion_wait_for_complete(c)

SpecRaw == InitRaw /\ [][NextRaw]_vars

(* ------------------------------------------------------------------ *)
(* Properties                                                          *)
(* ------------------------------------------------------------------ *)
\* the step is a call that returned (or crashed) in the next state
Returned == budget' # budget \/ (pc.op # "idle" /\ pc'.op = "idle")

WriteSameOps == {"Image_writesame", "Image_aio_writesame"}
WriteOps == {"Image_write", "Image_write2", "Image_aio_write", "Image_aio_write2"}

\* C7: a writesame or aio_writesame call whose length is not a multiple of the
\* pattern buffer's length (an empty pattern included) returns -EINVAL, hands no
\* request to the image's queue and leaves the transport's request counter and the
\* requests in flight as they were.
C7_WritesameLength ==
    [][(/\ Returned
        /\ last'.op \in WriteSameOps
        /\ (last'.blen = 0 \/ last'.len % last'.blen # 0))
       => (/\ last'.ret = -EINVAL
           /\ last'.reqs = {}
           /\ sent' = sent
           /\ inflight' = inflight
           /\ content' = content)]_vars

\* a writesame call of a length that is no multiple of a non-empty pattern was
\* turned away, and so was one with an empty pattern
C7_Witness ==
    /\ last.op \in WriteSameOps
    /\ last.blen = 2
    /\ last.len = 1
    /\ last.ret = -EINVAL
    /\ last.nsent = 0

\* C8: a write, write2, aio_write or aio_write2 call whose buffer is shorter than
\* len returns -EINVAL and sends nothing; one whose buffer holds at least len bytes
\* hands exactly one write request for (offset, len) to the queue of the open image.
C8_WriteBuffer ==
    [][(Returned /\ last'.op \in WriteOps)
       => IF last'.blen < last'.len
          THEN /\ last'.ret = -EINVAL
               /\ last'.reqs = {}
               /\ sent' = sent
               /\ inflight' = inflight
               /\ content' = content
          ELSE last'.h # NULL =>
                  /\ last'.reqs = {<<"write", last'.off, last'.len>>}
                  /\ sent' \in {sent, sent + 1}
                  /\ (conn = "open" => sent' = sent + 1)]_vars

\* a write with a buffer of exactly len bytes was dispatched
C8_Witness ==
    /\ last.op \in WriteOps
    /\ last.h # NULL
    /\ last.len = 2
    /\ last.blen = 2
    /\ last.reqs = {<<"write", last.off, 2>>}
    /\ last.nsent = 1

AsyncOps ==
    {"Image_aio_write", "Image_aio_write2", "Image_aio_read", "Image_aio_flush",
     "Image_aio_writesame", "Image_aio_compare_and_write", "Image_aio_close"}

\* nothing is on its way that could still resolve a completion
Settled ==
    /\ inflight = {}
    /\ responses = {}
    /\ \A h \in Ictxs : ictxState[h].st # "closing"

\* C9 (as stated): every asynchronous call that fails, a call turned away by a local
\* check included, ends with its completion Failed and carrying the error code: once
\* nothing is on its way any more, the completion of a call that reported an error
\* is Failed with that error.
C9_FailureThroughCompletion ==
    (last.op \in AsyncOps /\ last.c # 0 /\ last.ret < 0 /\ Settled)
        => (comp[last.c].state = "Failed" /\ comp[last.c].rval = last.ret)

\* what a compare-and-write reports: result ret, the caller's slot mm, against the
\* mismatch xmm of the caller's comparison buffer with the content
CasReport(ret, mm, xmm, off, len) ==
    /\ xmm # <<>> => (ret >= 0 /\ mm = xmm /\ mm[1] \in Range(off, len))
    /\ xmm = <<>> => mm = <<>>
    /\ ret < 0 => mm = <<>>

\* C10: a compare_and_write (or aio_compare_and_write) whose comparison buffer
\* differs from the content of [off, off+len) ends with a result >= 0 and the
\* mismatch offset set to the first differing position, which lies in the range;
\* without a difference, and with an error result, the mismatch slot stays unwritten.
C10_MismatchOffset ==
    /\ (last.op = "Image_compare_and_write" /\ last.h # NULL /\ last.ret # -EINVAL)
          => CasReport(last.ret, last.mm, last.xmm, last.off, last.len)
    /\ \A c \in Comps :
          (/\ last.op = "Image_aio_compare_and_write"
           /\ last.c = c
           /\ comp[c].op = "cas"
           /\ Terminal(comp[c]))
              => CasReport(IF comp[c].state = "Failed" THEN comp[c].rval ELSE 0,
                           comp[c].mm, comp[c].xmm, last.off, last.len)

\* a comparison over two bytes that differs at the second one only
C10_Witness ==
    /\ last.op = "Image_compare_and_write"
    /\ last.off = 0
    /\ last.len = 2
    /\ last.ret >= 0
    /\ last.mm = <<1>>

\* C2: a completion that is Complete or Failed keeps its state and its return value
\* and its callback is not called again, whatever is attempted on it; the callback
\* runs at most once and only on the step that leaves Pending; an rbd_aio_readv
\* given a completion that is already resolved is detected and changes nothing.
C2_Absorbing ==
    [][\A c \in Comps :
          /\ Terminal(comp[c]) =>
                /\ comp'[c].state = comp[c].state
                /\ comp'[c].rval = comp[c].rval
                /\ comp'[c].cb = comp[c].cb
          /\ comp'[c].cb # comp[c].cb =>
                /\ comp[c].state = "Pending"
                /\ Terminal(comp'[c])
                /\ comp'[c].cb = comp[c].cb + 1
          /\ (/\ Returned
              /\ last'.op = "rbd_aio_readv"
              /\ last'.c = c
              /\ Terminal(comp[c]))
                => comp'[c].dup = 1]_vars

\* the completion of an earlier rbd_aio_readv was passed to rbd_aio_readv again
C2_Witness ==
    /\ last.op = "rbd_aio_readv"
    /\ comp[last.c].state = "Complete"
    /\ comp[last.c].dup = 1
    /\ comp[last.c].cb = 1

AbiAioOps ==
    {"rbd_aio_readv", "rbd_aio_writev", "rbd_aio_discard", "rbd_aio_flush",
     "rbd_aio_write_zeroes"}

\* an operation that a C entry point accepted on completion c and that is unresolved
AbiPending(c) ==
    /\ comp[c].state = "Pending"
    /\ comp[c].h # NULL
    /\ comp[c].op \notin {"none", "close"}
    /\ comp[c].req = 0

\* C1 (as stated): once rbd_close of an open handle has returned 0, every operation
\* accepted on that handle before is Complete or Failed, and every later
\* asynchronous call on the handle is refused.
C1_Drain ==
    /\ (last.op = "rbd_close" /\ last.h # NULL /\ last.ret = 0)
          => \A c \in Comps :
                (comp[c].h = last.h /\ comp[c].op # "none") => Terminal(comp[c])
    /\ (last.op \in AbiAioOps /\ last.h # NULL /\ last.h \in cClosed) => last.ret < 0

\* C3 (as stated): an operation that a C entry point accepted and that is Pending
\* eventually becomes Complete or Failed, given a backend that answers and a
\* receive loop that runs.
C3_EventuallyResolved ==
    \A c \in Comps : AbiPending(c) ~> Terminal(comp[c])

DispatchOps ==
    AbiAioOps \cup (AsyncOps \ {"Image_aio_close"}) \cup
    {"Image_read", "Image_write", "Image_write2", "Image_flush", "Image_writesame",
     "Image_compare_and_write"}

\* C4 (as stated): when the connection drops, every operation pending on it becomes
\* Failed with BackendUnavailable and nothing stays in flight; once the channel is
\* closed, every dispatch on an open handle fails with ChannelClosed (as the call's
\* result or as the result of its completion) and sends nothing.
C4_ConnectionDrop ==
    [][/\ (conn = "open" /\ conn' = "closed") =>
            /\ inflight' = {}
            /\ responses' = {}
            /\ \A c \in Comps :
                  (/\ comp[c].state = "Pending"
                   /\ comp[c].h # NULL
                   /\ comp[c].op \notin {"none", "close"})
                      => (comp'[c].state = "Failed"
                          /\ comp'[c].rval = BackendUnavailable)
       /\ (/\ conn = "closed"
           /\ Returned
           /\ last'.op \in DispatchOps
           /\ last'.h # NULL
           /\ last'.ret # -EINVAL)
            => /\ sent' = sent
               /\ \/ last'.ret = ChannelClosed
                  \/ /\ last'.c # 0
                     /\ comp'[last'.c].state = "Failed"
                     /\ comp'[last'.c].rval = ChannelClosed]_vars

\* the bytes buf holds at the positions exp names
Holds(buf, exp) == \A e \in exp : e[1] \in DOMAIN buf /\ buf[e[1]] = e[2]

\* C5 (as stated): a read that completes returns, at every position whose write was
\* completed and then flushed before the read was issued, the byte written.
C5_RoundTrip ==
    /\ \A c \in Comps :
          (comp[c].state = "Complete" /\ comp[c].op = "read")
              => Holds(comp[c].buf, comp[c].exp)
    /\ (last.op = "Image_read" /\ last.h # NULL /\ last.ret >= 0)
          => Holds(last.buf, last.exp)

\* C6 (as stated): a successful read or write of len bytes reports len, through the
\* return value of the synchronous call or through the return value asked of its
\* completion once it is Complete; a failed one reports a negative value.
C6_ReturnValue ==
    [][/\ (/\ Returned
           /\ last'.op \in {"Image_read", "Image_write", "Image_write2"}
           /\ last'.h # NULL
           /\ last'.ret >= 0)
            => last'.ret = last'.len
       /\ (/\ Returned
           /\ last'.op \in {"rbd_aio_get_return_value", "get_return_value"}
           /\ comp[last'.c].op \in {"read", "write"})
            => /\ comp[last'.c].state = "Complete" => last'.ret = comp[last'.c].len
               /\ comp[last'.c].state = "Failed" => last'.ret < 0]_vars

\* the thread that called wait_for_complete on the completion has returned
WaitOver(cr) == cr.wait \in {"woken", "returned"}

\* C11: wait_for_complete returns in every interleaving with the resolution of its
\* operation: no thread is left asleep on a completion that is terminal (a wait
\* begun after the resolution returns at once, a wait begun before it is woken by
\* it), and a wait that is over has returned the recorded result of a terminal
\* completion.
C11_NoLostWakeup ==
    \A c \in Comps :
        /\ Terminal(comp[c]) => comp[c].wait # "asleep"
        /\ WaitOver(comp[c]) => Terminal(comp[c]) /\ comp[c].wret = comp[c].rval

\* one wait began before its operation failed and was woken, another began after
\* its operation was resolved and returned at once
C11_Witness ==
    \E c, d \in Comps :
        /\ comp[c].wait = "woken" /\ comp[c].state = "Failed"
        /\ comp[c].wret = comp[c].rval /\ comp[c].rval < 0
        /\ comp[d].wait = "returned" /\ comp[d].req # 0

\* the response to the request sent for completion c has not been decoded yet
Undecoded(c) == {r \in inflight \cup responses : r.c = c /\ r.id = comp[c].req}

\* C12: with a callback registered and a thread in wait_for_complete, the callback
\* runs only once the response of the operation has been decoded, and the wait
\* returns only after the callback has run; the callback runs once and the wait
\* returns the one recorded result.
C12_CallbackThenWait ==
    \A c \in Comps :
        /\ comp[c].cb <= 1
        /\ comp[c].cb = 1 => Terminal(comp[c]) /\ Undecoded(c) = {}
        /\ WaitOver(comp[c]) /\ comp[c].hasCb => comp[c].cb = 1
        /\ WaitOver(comp[c]) => comp[c].wret = comp[c].rval

\* a waiter was woken by the failure of an operation that was sent, after its callback
C12_Witness ==
    \E c \in Comps :
        /\ comp[c].hasCb /\ comp[c].cb = 1
        /\ comp[c].wait = "woken" /\ comp[c].state = "Failed"
        /\ comp[c].req # 0 /\ comp[c].wret = comp[c].rval

ReleaseOps == {"release", "rbd_aio_release"}

\* C13: a release is accepted only after the terminal state: a release of a
\* terminal completion frees it, a release of a pending one is detected as a
\* contract violation and frees nothing, the wrapper object included.
C13_Release ==
    [][\A c \in Comps :
          Returned /\ last'.op \in ReleaseOps /\ last'.c = c =>
              IF Terminal(comp[c])
              THEN comp'[c].rel = "freed"
              ELSE comp'[c].rel = "violation" /\ ~comp'[c].wdel]_vars

\* the step hands response r to the completion engine
Delivers(r) == r \in responses /\ responses' = responses \ {r} /\ conn' = conn

\* C14: a response resolves the operation whose request id it carries, with its own
\* status, in whatever order the responses arrive; no other operation's state or
\* result changes in that step.
C14_MatchedById ==
    [][\A r \in responses : Delivers(r) =>
          \A c \in Comps :
              IF comp[c].state = "Pending" /\ comp[c].req = r.id
              THEN Terminal(comp'[c]) /\ comp'[c].rval = r.status
              ELSE /\ comp'[c].state = comp[c].state
                   /\ comp'[c].rval = comp[c].rval
                   /\ comp'[c].buf = comp[c].buf]_vars

\* the operation issued second was resolved, with its own result, while the
\* request issued first is still unanswered
C14_Witness ==
    \E c, d \in Comps :
        /\ comp[c].state = "Pending" /\ comp[c].req # 0 /\ Undecoded(c) # {}
        /\ comp[d].req > comp[c].req
        /\ comp[d].state = "Complete" /\ comp[d].op = "read" /\ comp[d].rval = comp[d].len

\* the handle names a session between its successful open and the start of its close
HandleValid(h) == h # NULL /\ ictxState[h].st = "open" /\ h \notin cClosed

\* C15: a dispatching call made with a handle that was never opened, whose open
\* failed, or that is closing or closed returns an error, sends no request and
\* resolves no completion.
C15_InvalidHandle ==
    [][(Returned /\ last'.op \in DispatchOps /\ ~HandleValid(last'.h)) =>
          /\ ~crashed'
          /\ last'.ret < 0
          /\ last'.nsent = 0
          /\ sent' = sent
          /\ \A c \in Comps : comp'[c].state = comp[c].state]_vars

\* C16: over any sequence of opens and closes, no handle value returned by a
\* successful open was returned by a successful open before, closed handles included.
C16_HandlesUnique == \A h \in Ictxs : ictxState[h].gen <= 1

\* the request ids on the channel
Ids(S) == {r.id : r \in S}

C18_ReceiveLoopFree ==
    ~crashed =>
        /\ \A r \in responses : ENABLED ReceiveLoop(r)
        /\ pc.op = "Image_close" =>
               \/ ENABLED (\E r \in inflight : Backend_process(r))
               \/ ENABLED (\E r \in responses : ReceiveLoop(r))
               \/ ENABLED (\E r \in CloseResults : Image_close_return(r))
        /\ \A c \in Comps :
               comp[c].wait = "asleep" /\ comp[c].req # 0 => Undecoded(c) # {}

\* the caller is blocked in a synchronous close and another thread is asleep in
\* wait_for_complete while the response they both depend on has arrived
C18_Witness ==
    /\ pc.op = "Image_close"
    /\ \E c \in Comps :
          /\ comp[c].wait = "asleep"
          /\ Undecoded(c) \cap responses # {}
          /\ comp[c].h = pc.h

SyncOps ==
    {"Image_read", "Image_write", "Image_write2", "Image_writesame",
     "Image_compare_and_write"}

\* C19: a failure reported by the backend becomes the result of its operation
\* unchanged (through the response of an asynchronous operation, as the return value
\* of a synchronous one, through C_AioCompletion::finish for a close), every
\* operation handed to the request queue puts exactly one request on an open
\* channel, and no step other than a caller's call sends anything: nothing is sent
\* again after a failure or a connection loss.
C19_FailureVerbatim ==
    [][/\ \A r \in responses :
             Delivers(r) /\ r.status < 0 =>
                \A c \in Comps :
                    comp[c].state = "Pending" /\ comp[c].req = r.id =>
                        comp'[c].state = "Failed" /\ comp'[c].rval = r.status
       /\ \A h \in Ictxs :
             (/\ ictxState[h].st = "closing" /\ ictxState'[h].st = "closed"
              /\ ictxState[h].closer # 0 /\ ictxState'[h].res < 0
              /\ comp[ictxState[h].closer].state = "Pending") =>
                 /\ comp'[ictxState[h].closer].state = "Failed"
                 /\ comp'[ictxState[h].closer].rval = ictxState'[h].res
       /\ (/\ Returned /\ pc'.op = "idle" /\ last'.op \in SyncOps /\ last'.nsent = 1
           /\ last'.off + last'.len > ImgSize) => last'.ret = OutOfRange
       /\ (Returned /\ pc'.op = "idle" /\ last'.op \in DispatchOps) =>
              /\ sent' - sent = last'.nsent
              /\ Cardinality(Ids(inflight') \ Ids(inflight)) <= last'.nsent
              /\ last'.nsent = IF last'.reqs # {} /\ conn = "open" THEN 1 ELSE 0
       /\ ~Returned => sent' = sent /\ Ids(inflight') \subseteq Ids(inflight)]_vars

\* an asynchronous close failed in the backend and its completion carries the error
C19_Witness ==
    \E c \in Comps :
        /\ comp[c].op = "close"
        /\ comp[c].state = "Failed"
        /\ comp[c].rval = CloseError
        /\ ictxState[comp[c].h].res = CloseError

ReadOps == {"Image_read", "Image_aio_read", "rbd_aio_readv"}

\* C20: a read on an open handle whose offset + length lies beyond the image size
\* is not turned away by the library: the request is sent to the backend, and the
\* result is the backend's (OutOfRange from the synchronous call; an asynchronous
\* call is accepted and its completion is left to the response).
C20_OutOfRangeRead ==
    [][(/\ Returned /\ pc'.op = "idle"
        /\ last'.op \in ReadOps
        /\ HandleValid(last'.h)
        /\ conn = "open"
        /\ last'.off + last'.len > ImgSize) =>
           /\ last'.nsent = 1
           /\ sent' = sent + 1
           /\ last'.op = "Image_read" => last'.ret = OutOfRange
           /\ (last'.op # "Image_read" /\ comp[last'.c].state = "Pending") =>
                  /\ last'.ret = 0
                  /\ comp'[last'.c].state = "Pending"
                  /\ Ids(inflight') \ Ids(inflight) = {comp'[last'.c].req}]_vars

VecOps == {"rbd_aio_readv", "rbd_aio_writev"}

\* C21: a readv / writev call on an open handle puts exactly one request on the
\* channel, of the call's offset and of the summed length of its segments (the
\* call record holds the segments flattened: last.len is their total length).
C21_OneLogicalRequest ==
    [][(/\ Returned /\ pc'.op = "idle"
        /\ last'.op \in VecOps
        /\ last'.len > 0
        /\ HandleValid(last'.h)
        /\ conn = "open"
        /\ comp[last'.c].state = "Pending") =>
           /\ Cardinality(Ids(inflight') \ Ids(inflight)) = 1
           /\ \E r \in inflight' :
                 /\ r.id \notin Ids(inflight)
                 /\ r.kind = (IF last'.op = "rbd_aio_readv" THEN "read" ELSE "write")
                 /\ r.off = last'.off
                 /\ r.len = last'.len]_vars

SnapOps == {"rbd_snap_create", "rbd_snap_remove", "rbd_snap_rollback", "rbd_snap_list"}

\* C22: a snapshot entry point returns success only when the backend performed the
\* operation, that is when a request for it went out on the channel; otherwise it
\* returns a negative error.
C22_SnapshotNotSilent ==
    [][(Returned /\ last'.op \in SnapOps /\ last'.ret >= 0) =>
          last'.nsent >= 1 /\ sent' > sent]_vars

\* C23: a successful rbd_aio_create_completion hands back a newly allocated
\* completion in state Pending whose callback has not run.
C23_CreateCompletion ==
    [][(/\ Returned /\ last'.op = "rbd_aio_create_completion" /\ last'.ret = 0
        /\ \E c \in Comps : comp[c].state = "Free") =>
           \E c \in Comps :
               /\ last'.c = c
               /\ comp[c].state = "Free"
               /\ comp'[c].state = "Pending"
               /\ comp'[c].cb = 0]_vars

\* C24: create_write_raw copies the caller's bytes when the image is configured with
\* disable_zero_copy or the write has no completion, and what is written is then
\* what the caller passed, whatever the caller does to its buffer afterwards;
\* otherwise the caller's memory is claimed, the completion is blocked from the claim
\* until the last reference to the memory is dropped, and it is not delivered (no
\* terminal state, no callback, no waiter returned) while a reference is held.
C24_WriteBufferOwnership ==
    /\ raw.mode # "none" => (raw.mode = "copy" <=> (raw.dz \/ raw.c = 0))
    /\ (raw.mode = "copy" /\ raw.out # <<>>) => raw.out = raw.orig
    /\ raw.mode = "claim" =>
          /\ raw.refs > 0 =>
                /\ comp[raw.c].blk > 0
                /\ comp[raw.c].state = "Pending"
                /\ comp[raw.c].cb = 0
                /\ ~WaitOver(comp[raw.c])
          /\ raw.refs = 0 => comp[raw.c].blk = 0

\* the write on claimed memory was resolved while the library still held the
\* memory: the resolution is held back
C24_Witness ==
    /\ raw.mode = "claim"
    /\ raw.refs > 0
    /\ comp[raw.c].held # <<>>
    /\ raw.mem # raw.orig

\* C25: rbd_open writes the caller's handle slot only on success: with r >= 0 the
\* slot holds the new, open session and r is returned; with r < 0 the slot is
\* left as the caller passed it and the negative r is returned.
C25_OpenWritesSlotOnSuccess ==
    [][(Returned /\ last'.op = "rbd_open") =>
          IF last'.ret >= 0
          THEN /\ cImage' = last'.h
               /\ ictxState[last'.h].st # "open"
               /\ ictxState'[last'.h].st = "open"
          ELSE /\ cImage' = cImage
               /\ ictxState'[last'.h].st # "open"]_vars

\* an rbd_open failed after an earlier one had succeeded: the slot still holds the
\* earlier session
C25_Witness ==
    /\ last.op = "rbd_open"
    /\ last.ret < 0
    /\ cImage # NULL
    /\ cImage # last.h
    /\ ictxState[cImage].st = "open"

\* image.ctx refers to no session whose close has been issued
NoClosedRef == imageCtx = NULL \/ ictxState[imageCtx].st = "open"

\* an RBD::open that found a session on the Image returns
ReopenReturns == pc.op = "RBD_open" /\ pc'.op = "idle"

\* what an RBD::open that found a session on the Image leaves behind when it
\* returns: the old session closed, the new one opened only after the close, and
\* image.ctx on the new session or NULL
ReopenEffect ==
    /\ ictxState'[pc.h].st = "closed"
    /\ ictxState[pc.new].st = "new"
    /\ last'.op = "RBD_open"
    /\ IF last'.ret < 0
       THEN imageCtx' = NULL /\ ictxState'[pc.new].st # "open"
       ELSE /\ last'.ret = 0
            /\ imageCtx' = pc.new
            /\ ictxState'[pc.new].st = "open"

\* C26 as stated: RBD::open on an Image that holds a session closes the old session
\* and clears image.ctx before the new open; a failed open returns the negative
\* code and leaves image.ctx NULL, a successful one leaves image.ctx on the new
\* session; and at no point does image.ctx refer to a session whose close has been
\* issued.
C26_ReopenNeverRefersToClosing ==
    [][/\ ReopenReturns => ReopenEffect
       /\ (pc'.op = "RBD_open" => NoClosedRef')]_vars

\* C26, amended: the same effect on return; image.ctx still refers to the old
\* session when RBD::open has issued the close of that session and blocks in it,
\* and is cleared when the close returns, so that it refers to no session whose
\* close has been issued once RBD::open has returned.
C26_ReopenClearsAfterClose ==
    [][/\ ReopenReturns => (ReopenEffect /\ NoClosedRef')
       /\ (pc.op = "idle" /\ pc'.op = "RBD_open") =>
              /\ imageCtx' = pc'.h
              /\ ictxState'[pc'.h].st = "closing"
              /\ ictxState'[pc'.new].st = "new"]_vars

\* a reopen failed after the old session was closed: image.ctx is NULL
C26_Witness ==
    /\ last.op = "RBD_open"
    /\ last.ret < 0
    /\ last.nsent = 2
    /\ imageCtx = NULL
    /\ \E h \in Ictxs : ictxState[h].st = "closed" /\ ictxState[h].gen > 0

\* completions handed to an RBD::aio_open that has not resolved them yet
OpenComps == {c \in Comps : comp[c].op = "open" /\ comp[c].state = "Pending"}

\* C27: RBD::aio_open on an Image that holds an open session issues the close of the
\* old session first and leaves the new session unopened; the old context is
\* dropped, image.ctx set to null and the open of the new session issued in the
\* step in which that close finishes, whatever its result; the caller's completion
\* stays pending until the new open finishes and takes that open's result.
C27_AioReopenOrder ==
    [][/\ (Returned /\ pc'.op = "idle" /\ last'.op = "RBD_aio_open" /\ imageCtx # NULL) =>
             /\ last'.ret = 0
             /\ imageCtx' = imageCtx
             /\ ictxState'[imageCtx].st = "closing"
             /\ ictxState'[imageCtx].closes = ictxState[imageCtx].closes + 1
             /\ ictxState'[last'.h].st = "new"
             /\ sent' = sent
       /\ \A c \in OpenComps :
             /\ (ictxState[comp[c].h].st = "new" /\ ictxState'[comp[c].h].st # "new") =>
                   /\ ictxState'[comp[c].h].st = "opening"
                   /\ imageCtx' = NULL
                   /\ \E h \in Ictxs : /\ ictxState[h].st = "closing"
                                       /\ ictxState[h].closer = c
                                       /\ Outstanding(h) = {}
                                       /\ ictxState'[h].st = "closed"
             /\ comp'[c].state # "Pending" =>
                   /\ ictxState[comp[c].h].st = "opening"
                   /\ IF ictxState'[comp[c].h].res < 0
                      THEN /\ comp'[c].state = "Failed"
                           /\ comp'[c].rval = ictxState'[comp[c].h].res
                      ELSE comp'[c].state = "Complete"]_vars

\* the close of the old session failed, and the caller's completion completed with
\* the success of the new open
C27_Witness ==
    \E c \in Comps :
       /\ comp[c].op = "open"
       /\ comp[c].state = "Complete"
       /\ imageCtx = comp[c].h
       /\ ictxState[comp[c].h].st = "open"
       /\ \E h \in Ictxs : /\ h # comp[c].h
                           /\ ictxState[h].st = "closed"
                           /\ ictxState[h].res = CloseError
                           /\ ictxState[h].closes = 1

\* the handle slot agrees with the result of the asynchronous open on completion c
SlotAgrees(c) ==
    IF comp'[c].state = "Complete"
    THEN imageCtx' = comp[c].h /\ ictxState'[comp[c].h].st = "open"
    ELSE imageCtx' = NULL /\ ictxState'[comp[c].h].st # "open"

AioClosing == {h \in Ictxs : /\ ictxState[h].st \in {"closing", "closed"}
                             /\ ictxState[h].closer # 0
                             /\ comp[ictxState[h].closer].op = "close"}

\* C29: Image::aio_close on an Image without a session returns -EINVAL and changes
\* neither the completion nor any session; on an Image with an open session it
\* issues one close, sets ctx to NULL while the close is unresolved and returns 0;
\* no later call issues another close on a session that aio_close is closing or
\* has closed.
C29_AioClose ==
    [][/\ (Returned /\ pc'.op = "idle" /\ last'.op = "Image_aio_close") =>
             IF imageCtx = NULL
             THEN /\ last'.ret = -EINVAL
                  /\ comp' = comp
                  /\ comp[last'.c].state = "Pending" /\ comp[last'.c].cb = 0
                  /\ ictxState' = ictxState
                  /\ imageCtx' = NULL
             ELSE /\ last'.ret = 0
                  /\ imageCtx' = NULL
                  /\ ictxState[imageCtx].st = "open"
                  /\ ictxState'[imageCtx].st = "closing"
                  /\ ictxState'[imageCtx].closes = ictxState[imageCtx].closes + 1
                  /\ comp'[last'.c].state = "Pending" /\ comp'[last'.c].cb = 0
       /\ \A h \in AioClosing :
             /\ imageCtx # h
             /\ ictxState'[h].closes = ictxState[h].closes]_vars

\* a close() that follows an aio_close whose close has not resolved yet:
\* it returned 0 and the session has seen one close
C29_Witness ==
    /\ last.op = "Image_close"
    /\ last.h = NULL
    /\ last.ret = 0
    /\ imageCtx = NULL
    /\ \E h \in AioClosing : /\ ictxState[h].st = "closing"
                             /\ comp[ictxState[h].closer].state = "Pending"
                             /\ ictxState[h].closes = 1

\* calls of ImageState::close made so far, and opens that succeeded so far
RECURSIVE SumUpTo(_, _)
SumUpTo(f, n) == IF n = 0 THEN 0 ELSE f[n] + SumUpTo(f, n - 1)
BackendCloses == SumUpTo([h \in Ictxs |-> ictxState[h].closes], MaxOpens)
SuccessfulOpens == SumUpTo([h \in Ictxs |-> ictxState[h].gen], MaxOpens)

\* C30: Image::close on an Image with an open session issues one backend close,
\* returns the result of that close and leaves ctx NULL whatever the result; a
\* close on an Image that holds no session issues no backend close and returns 0;
\* and the backend closes issued never outnumber the opens that succeeded.
C30_CloseIdempotent ==
    [][/\ (pc.op = "idle" /\ pc'.op = "Image_close" /\ ictxState[imageCtx].st = "open") =>
             /\ pc'.h = imageCtx
             /\ ictxState'[imageCtx].st = "closing"
             /\ BackendCloses' = BackendCloses + 1
       /\ (pc.op = "Image_close" /\ pc'.op = "idle") =>
             /\ last'.op = "Image_close"
             /\ last'.ret \in {0, CloseError}
             /\ last'.ret = ictxState'[pc.h].res
             /\ ictxState'[pc.h].st = "closed"
             /\ imageCtx' = NULL
             /\ BackendCloses' = BackendCloses
       /\ (Returned /\ pc.op = "idle" /\ pc'.op = "idle" /\ last'.op = "Image_close") =>
             /\ imageCtx = NULL /\ imageCtx' = NULL
             /\ last'.ret = 0
             /\ ictxState' = ictxState
       /\ BackendCloses' <= SuccessfulOpens']_vars

====
